---- MODULE Spec2Model ----
(***************************************************************************)
(* Verification model of i18n-json-translator's FileProcessor.             *)
(*                                                                         *)
(*  - the queue version of the orchestration (translateLanguage with a     *)
(*    task queue and an inProgress set, driven one language at a time by   *)
(*    processTranslationsParallel), run on the JavaScript event loop: a    *)
(*    handler runs to its next await, promise reactions run in FIFO order; *)
(*  - translateWithRetry, the retry loop with multiplicative backoff;      *)
(*  - Translator.translateObject, the sequential walk of a document;       *)
(*  - the batch version of processTranslationsParallel, one task per       *)
(*    language, awaited maxWorkers at a time.                              *)
(***************************************************************************)
EXTENDS Integers, Sequences, FiniteSets, TLC

(***************************************************************************)
(* Bounds of the model.                                                    *)
(***************************************************************************)
MaxWorkers == 2
MaxQueueRetries == 2
MaxRetries == 3
MaxBatchRetries == 2

(***************************************************************************)
(* Documents.  A document is an ordered nested mapping; it is represented  *)
(* as a function from the path of every object in it (the root is <<>>)    *)
(* to the ordered list of that object's entries.  An entry of kind "obj"   *)
(* has its own list at the path extended by its key.                       *)
(***************************************************************************)
Entry(k, kind, text) == [key |-> k, kind |-> kind, text |-> text]

\* {"a":"nihao","b":"nihao","c":"shijie"}
DocFlat ==
  (<<>> :> << Entry("a", "str", "nihao"), Entry("b", "str", "nihao"),
              Entry("c", "str", "shijie") >>)

\* {"a":"nihao","b":{"c":"nihao","d":"shijie"}}
DocNested ==
  (<<>> :> << Entry("a", "str", "nihao"), Entry("b", "obj", "") >>)
  @@ (<<"b">> :> << Entry("c", "str", "nihao"), Entry("d", "str", "shijie") >>)

\* {"a":"nihao","n":5,"z":null,"e":{},"f":true}
DocMixed ==
  (<<>> :> << Entry("a", "str", "nihao"), Entry("n", "num", "5"),
              Entry("z", "null", ""), Entry("e", "obj", ""),
              Entry("f", "bool", "true") >>)
  @@ (<<"e">> :> << >>)

\* {"o":{"p":{"q":"nihao"}},"r":"nihao"}
DocDeep ==
  (<<>> :> << Entry("o", "obj", ""), Entry("r", "str", "nihao") >>)
  @@ (<<"o">> :> << Entry("p", "obj", "") >>)
  @@ (<<"o", "p">> :> << Entry("q", "str", "nihao") >>)

\* {"a":"nihao","b":{"c":"shijie"}}
DocPair ==
  (<<>> :> << Entry("a", "str", "nihao"), Entry("b", "obj", "") >>)
  @@ (<<"b">> :> << Entry("c", "str", "shijie") >>)

\* the documents of the runs of one language
Documents == { DocFlat, DocNested, DocMixed, DocDeep }

\* the requested target languages of the runs of one language
TargetLists == { << "en" >>, << "kr" >>, << "JP" >>, << "cn" >>, << "Tw" >>,
                 << "EN" >> }

\* the documents and target languages of the invocations with two languages
DriverDocuments == { DocPair, DocMixed }

DriverTargetLists == { << "en", "ja" >>, << "ja", "en" >>, << "kr", "ko" >> }

(***************************************************************************)
(* State.                                                                  *)
(***************************************************************************)
VARIABLES
  pc,                 \* position of processTranslationsParallel
  inputData,          \* the parsed input document
  targetLanguages,    \* the requested codes
  maxWorkers,         \* finalOptions.maxWorkers
  maxRetries,         \* finalOptions.maxRetries
  langIdx,            \* index of the language of the for loop
  results,            \* results: code -> output path or "ERROR: ..."
  written,            \* files written by saveTranslation: code -> document
  translationCache,   \* static translationCache: lang -> text -> translation
  progress,           \* static progress: lang -> completed keys
  totalKeys,          \* static totalKeys
  processedLanguages, \* static processedLanguages
  activeRequests,     \* static activeRequests
  frames,             \* the translateLanguage calls of the run, by path
  microtasks,         \* the promise reaction jobs, in FIFO order
  calls,              \* provider calls in flight
  providerCalls,      \* the provider mock's call counts
  providerLog,        \* the provider mock's outcomes per run and leaf
  thrown,             \* the error processTranslationsParallel threw
  errorLog,           \* translation_errors.json: code -> report
  \* translateWithRetry
  retryPc,            \* position of translateWithRetry
  retryOptions,       \* options: maxRetries, retryDelay, retryMultiplier
  attempt,            \* the loop variable
  currentDelay,       \* the delay of the next wait, a fraction num/den
  invocations,        \* the provider mock's outcomes, one per invocation
  waits,              \* the delays of the setTimeout calls, in order
  retryResult,        \* the value returned or the message of the error thrown
  \* Translator
  config,             \* the TranslationConfig given to the constructor
  translator,         \* the Translator: its provider and clients, or its error
  \* Translator.translateObject
  tPc,                \* position of the outermost translateObject call
  obj,                \* its argument obj
  targetLang,         \* its argument targetLang
  tStack,             \* the translateObject calls on the stack: path, index
  tResult,            \* the result object of each call, by path
  tCalls,             \* the provider's calls, in order, with their outcomes
  tError,             \* the error the call rejected with
  tReturned,          \* the document the call returned, as << doc >>
  \* processTranslationsParallel, batch version
  bPc,                \* position of processTranslationsParallel
  bLanguages,         \* targetLanguages
  bOptions,           \* finalOptions: maxWorkers, maxRetries
  bTasks,             \* translationTasks: the state of each task's promise
  bBatch,             \* the loop variable i of the batch loop
  bResults,           \* results
  bWritten,           \* the files saveTranslation wrote
  bStarted            \* the translateObject calls, in order of their start

qvars == << pc, inputData, targetLanguages, maxWorkers, maxRetries, langIdx,
            results, written, translationCache, progress, totalKeys,
            processedLanguages, activeRequests, frames, microtasks, calls,
            providerCalls, providerLog, thrown, errorLog >>

rvars == << retryPc, retryOptions, attempt, currentDelay, invocations, waits,
            retryResult >>

tvars == << config, translator, tPc, obj, targetLang, tStack, tResult, tCalls, tError, tReturned >>

bvars == << bPc, bLanguages, bOptions, bTasks, bBatch, bResults, bWritten,
            bStarted >>

vars == << qvars, rvars, tvars, bvars >>

(***************************************************************************)
(* Small helpers.                                                          *)
(***************************************************************************)
\* a function updated or extended at one point (obj[k] = v)
Put(f, k, v) == [x \in DOMAIN f \cup {k} |-> IF x = k THEN v ELSE f[x]]

Range(s) == { s[i] : i \in DOMAIN s }

Remove(s, x) == SelectSeq(s, LAMBDA y : y # x)

Parent(path) == SubSeq(path, 1, Len(path) - 1)

Last(path) == path[Len(path)]

\* String.prototype.toLowerCase on the codes of the model
toLowerCase(code) ==
  CASE code = "KR" -> "kr"
    [] code = "JP" -> "jp"
    [] code = "Tw" -> "tw"
    [] code = "EN" -> "en"
    [] OTHER -> code

LANGUAGE_CODE_ALIASES ==
  ("kr" :> "ko") @@ ("cn" :> "zh-CN") @@ ("tw" :> "zh-TW") @@ ("jp" :> "ja")

\* the lookup without toLowerCase
normalizeCaseSensitive(code) ==
  IF code \in DOMAIN LANGUAGE_CODE_ALIASES
    THEN LANGUAGE_CODE_ALIASES[code]
    ELSE code

normalizeLanguageCode(code) ==
  IF toLowerCase(code) \in DOMAIN LANGUAGE_CODE_ALIASES
    THEN LANGUAGE_CODE_ALIASES[toLowerCase(code)]
    ELSE code

\* SUPPORTED_LANGUAGES of utils/index.ts
SUPPORTED_LANGUAGES ==
  { "en", "es", "fr", "de", "it", "pt", "ru", "ja", "ko", "vi" }

normalizedLanguages ==
  [i \in DOMAIN targetLanguages |-> normalizeLanguageCode(targetLanguages[i])]

\* the language of the running translateLanguage call
LangOf(s) == normalizedLanguages[s.langIdx]

\* no error: the fields of a TranslationError, all empty
NoError == [name |-> "", code |-> "", message |-> "", key |-> ""]

\* String(value) of a non-string scalar
String(e) == IF e.kind = "null" THEN "null" ELSE e.text

\* the translation the provider returns when it succeeds
Translate(text, l) == l \o ":" \o text

\* a marker that drops the original text
FailureMarkerWithoutText(e) == "[TRANSLATION_FAILED]"

FailureMarker(e) == "[TRANSLATION_FAILED] " \o e.text

RECURSIVE countTranslatableKeys(_, _)
countTranslatableKeys(d, path) ==
  LET RECURSIVE Sum(_)
      Sum(i) ==
        IF i > Len(d[path]) THEN 0
        ELSE (CASE d[path][i].kind = "str" -> 1
                [] d[path][i].kind = "obj" ->
                     countTranslatableKeys(d, path \o << d[path][i].key >>)
                [] OTHER -> 0) + Sum(i + 1)
  IN Sum(1)

\* a lookup that never hits
getCachedNever(cache, text, l) == ""

\* a lookup that ignores the language
getCachedAnyLanguage(cache, text, l) ==
  IF \E k \in DOMAIN cache : text \in DOMAIN cache[k]
    THEN cache[CHOOSE k \in DOMAIN cache : text \in DOMAIN cache[k]][text]
    ELSE ""

\* translationCache[lang]?.[text] || null ; "" stands for null
getCachedTranslation(cache, text, l) ==
  IF l \in DOMAIN cache /\ text \in DOMAIN cache[l] THEN cache[l][text] ELSE ""

\* a cache keyed by the source text alone: the entry is stored for every
\* language of the invocation
cacheTranslationByText(cache, text, l, translation) ==
  [k \in DOMAIN cache \cup Range(normalizedLanguages) |->
     Put(IF k \in DOMAIN cache THEN cache[k] ELSE << >>, text, translation)]

cacheTranslation(cache, text, l, translation) ==
  Put(cache, l, Put(IF l \in DOMAIN cache THEN cache[l] ELSE << >>,
                    text, translation))

\* updateProgress: no effect once the language is in processedLanguages
updateProgress(s, l, completedKeys) ==
  IF l \in s.processedLanguages THEN s
  ELSE [s EXCEPT !.progress = Put(s.progress, l, completedKeys)]

(***************************************************************************)
(* translateLanguage.  A call is a frame, named by the path of the object  *)
(* it translates.  The operators below transform the record s of the       *)
(* mutable state; they are the synchronous parts of the code.              *)
(***************************************************************************)
NoFrame ==
  [status |-> "absent", queue |-> << >>, inProgress |-> << >>,
   settled |-> {}, result |-> << >>, completedKeys |-> 0]

Job(type, frame, key, outcome) ==
  [type |-> type, frame |-> frame, key |-> key, outcome |-> outcome]

\* the settling is not seen by the Promise.race of the call
SettleUnnoticed(s, f, key) ==
  [s EXCEPT
     !.frames[f].settled = @ \cup {key},
     !.microtasks = @ \o << Job("finally", f, key, "") >>]

\* the promise of task (f, key) settles: its finally callback is queued, and
\* the reaction of the Promise.race it takes part in, if any
Settle(s, f, key) ==
  LET racing == s.frames[f].status \in {"waiting", "resuming"}
  IN [s EXCEPT
        !.frames[f].settled = @ \cup {key},
        !.microtasks = @ \o << Job("finally", f, key, "") >>
                         \o (IF racing THEN << Job("race", f, "", "") >>
                             ELSE << >>)]

\* the value is stored a second time
AssignTwice(s, f, key, kind, text) ==
  [s EXCEPT !.frames[f].result = Append(Append(@, Entry(key, kind, text)),
                                        Entry(key, kind, text))]

\* result[key] = value
Assign(s, f, key, kind, text) ==
  [s EXCEPT !.frames[f].result = Append(@, Entry(key, kind, text))]

\* a string task finished with a translation: lines 324-325 and 337
Complete(s, f, key, text) ==
  LET n  == s.frames[f].completedKeys + 1
      s1 == [s EXCEPT !.frames[f].completedKeys = n]
  IN Assign(updateProgress(s1, LangOf(s), n), f, key, "str", text)

\* translateText up to its await: the request is registered and sent
\* a translateText that does not record its request
translateTextUntracked(s, f, e) ==
  LET leaf == f \o << e.key >>
      call == << s.langIdx, LangOf(s), e.text >>
  IN [s EXCEPT
        !.calls = @ \cup {leaf},
        !.providerCalls =
           Put(@, call, IF call \in DOMAIN @ THEN @[call] + 1 ELSE 1)]

translateText(s, f, e) ==
  LET leaf == f \o << e.key >>
      call == << s.langIdx, LangOf(s), e.text >>
  IN [s EXCEPT
        !.activeRequests = @ \cup {leaf},
        !.calls = @ \cup {leaf},
        !.providerCalls =
           Put(@, call, IF call \in DOMAIN @ THEN @[call] + 1 ELSE 1)]

RECURSIVE RunLoop(_, _), Fill(_, _), StartTask(_, _, _)

\* a call of translateLanguage on the object at path f, up to its first await
translateLanguage(s, f) ==
  RunLoop([s EXCEPT !.frames[f] =
             [NoFrame EXCEPT !.status = "running", !.queue = inputData[f]]], f)

\* the task body of lines 309-342, up to its first await, then line 344
StartTask(s, f, e) ==
  LET s1 ==
        CASE e.kind = "str" ->
               LET cached == getCachedTranslation(s.translationCache, e.text, LangOf(s))
               IN IF cached # ""
                    THEN Settle(Complete(s, f, e.key, cached), f, e.key)
                    ELSE translateText(s, f, e)
          [] e.kind = "obj" -> translateLanguage(s, f \o << e.key >>)
          [] OTHER -> Settle(Assign(s, f, e.key, "str", String(e)), f, e.key)
  IN [s1 EXCEPT !.frames[f].inProgress = Append(@, e.key)]

\* a pass that starts one task at most
FillOne(s, f) ==
  LET fr == s.frames[f]
  IN IF Len(fr.queue) > 0 /\ Len(fr.inProgress) < maxWorkers
       THEN StartTask([s EXCEPT !.frames[f].queue = Tail(@)], f, Head(fr.queue))
       ELSE s

\* the inner while of lines 306-348
Fill(s, f) ==
  LET fr == s.frames[f]
  IN IF Len(fr.queue) > 0 /\ Len(fr.inProgress) < maxWorkers
       THEN Fill(StartTask([s EXCEPT !.frames[f].queue = Tail(@)],
                           f, Head(fr.queue)), f)
       ELSE s

\* the outer while of lines 299-354 from its head to the next await, or to
\* the return of line 357
RunLoop(s, f) ==
  LET fr == s.frames[f]
  IN IF Len(fr.queue) = 0 /\ Len(fr.inProgress) = 0
       THEN [s EXCEPT
               !.frames[f].status = "returned",
               !.microtasks = Append(@,
                  IF f = << >> THEN Job("driver", f, "", "")
                  ELSE Job("nested", Parent(f), Last(f), ""))]
       ELSE
         LET s1  == Fill(s, f)
             fr1 == s1.frames[f]
         IN IF Len(fr1.inProgress) > 0
              THEN [s1 EXCEPT
                      !.frames[f].status = "waiting",
                      !.microtasks = @ \o
                         (IF Range(fr1.inProgress) \cap fr1.settled # {}
                            THEN << Job("race", f, "", "") >> ELSE << >>)]
              ELSE RunLoop(s1, f)

(***************************************************************************)
(* The state record the operators work on, and its write-back.             *)
(***************************************************************************)
Cur ==
  [langIdx |-> langIdx, frames |-> frames, microtasks |-> microtasks, calls |-> calls,
   providerCalls |-> providerCalls, activeRequests |-> activeRequests,
   translationCache |-> translationCache, progress |-> progress,
   processedLanguages |-> processedLanguages]

Becomes(s) ==
  /\ langIdx' = s.langIdx
  /\ frames' = s.frames
  /\ microtasks' = s.microtasks
  /\ calls' = s.calls
  /\ providerCalls' = s.providerCalls
  /\ activeRequests' = s.activeRequests
  /\ translationCache' = s.translationCache
  /\ progress' = s.progress
  /\ processedLanguages' = s.processedLanguages

NoFrames(d) == [p \in DOMAIN d |-> NoFrame]

EntryAt(d, f, key) == CHOOSE e \in Range(d[f]) : e.key = key

\* the document assembled by the translateLanguage call of the root
Assembled(s) == [p \in DOMAIN inputData |-> s.frames[p].result]

(***************************************************************************)
(* Initial state: the static fields as the class initialises them, and an  *)
(* invocation about to be made with some document, target languages and    *)
(* options.                                                                *)
(***************************************************************************)
Invocation(documents, targetLists, workers, retries) ==
  /\ pc = "idle"
  /\ inputData \in documents
  /\ targetLanguages \in targetLists
  /\ maxWorkers \in 1..workers
  /\ maxRetries \in 1..retries
  /\ langIdx = 1
  /\ results = << >>
  /\ written = << >>
  /\ translationCache = << >>
  /\ progress = << >>
  /\ totalKeys = 0
  /\ processedLanguages = {}
  /\ activeRequests = {}
  /\ frames = NoFrames(inputData)
  /\ microtasks = << >>
  /\ calls = {}
  /\ providerCalls = << >>
  /\ providerLog = << >>
  /\ thrown = ""
  /\ errorLog = << >>

\* translateWithRetry is not running
NoRetry ==
  /\ retryPc = "idle"
  /\ retryOptions = [maxRetries |-> 1, retryDelay |-> 0, retryMultiplier |-> << 1, 1 >>]
  /\ attempt = 0
  /\ currentDelay = [num |-> 0, den |-> 1]
  /\ invocations = << >>
  /\ waits = << >>
  /\ retryResult = ""

(***************************************************************************)
(* The Translator's configuration and constructor.  A key that is absent   *)
(* and a key that is the empty string are both falsy: "" stands for both.  *)
(* provider "" is a configuration without provider.                        *)
(***************************************************************************)
NoCustomProvider == [present |-> FALSE, apiKey |-> "", apiUrl |-> ""]

Configs ==
  [provider : { "", "openai", "claude", "custom" },
   openaiApiKey : { "", "sk-key" },
   anthropicApiKey : { "", "ak-key" },
   customProvider : { NoCustomProvider }
                      \cup [present : { TRUE }, apiKey : { "", "c-key" },
                            apiUrl : { "", "http://api" }]]

\* {}
EmptyConfig ==
  [provider |-> "", openaiApiKey |-> "", anthropicApiKey |-> "",
   customProvider |-> NoCustomProvider]

\* the configuration of translator.test.ts
TestConfig == [EmptyConfig EXCEPT !.provider = "openai", !.openaiApiKey = "test-key"]

\* only the configuration of a selected provider is checked
validateConfigOfSelectedProvider(c) ==
  CASE c.provider = "custom" ->
         IF c.customProvider.apiKey = "" \/ c.customProvider.apiUrl = ""
           THEN "Custom provider requires both API key and URL" ELSE ""
    [] c.provider = "openai" ->
         IF c.openaiApiKey = ""
           THEN "OpenAI API key is required when using OpenAI provider" ELSE ""
    [] c.provider = "claude" ->
         IF c.anthropicApiKey = ""
           THEN "Anthropic API key is required when using Claude provider" ELSE ""
    [] OTHER -> ""

\* validateConfig: the message of the error it throws, "" when it returns
validateConfig(c) ==
  CASE c.provider = "custom" ->
         IF c.customProvider.apiKey = "" \/ c.customProvider.apiUrl = ""
           THEN "Custom provider requires both API key and URL" ELSE ""
    [] c.provider = "openai" ->
         IF c.openaiApiKey = ""
           THEN "OpenAI API key is required when using OpenAI provider" ELSE ""
    [] c.provider = "claude" ->
         IF c.anthropicApiKey = ""
           THEN "Anthropic API key is required when using Claude provider" ELSE ""
    [] OTHER ->
         IF c.openaiApiKey = "" /\ c.anthropicApiKey = "" /\ ~c.customProvider.present
           THEN "At least one API provider configuration must be provided" ELSE ""

NotConstructed ==
  [pc |-> "none", provider |-> "", openaiClient |-> FALSE,
   anthropicClient |-> FALSE, customClient |-> FALSE, error |-> ""]

\* new Translator(config): lines 20-38
NewTranslator(c) ==
  LET error    == validateConfig(c)
      provider == IF c.provider = "" THEN "openai" ELSE c.provider
  IN IF error # ""
       THEN [NotConstructed EXCEPT !.pc = "thrown", !.error = error]
       ELSE [pc |-> "constructed",
             provider |-> provider,
             openaiClient |-> provider = "openai" /\ c.openaiApiKey # "",
             anthropicClient |-> provider = "claude" /\ c.anthropicApiKey # "",
             customClient |-> provider = "custom" /\ c.customProvider.present,
             error |-> ""]

\* no translateObject call is running
NoTranslator ==
  /\ config = TestConfig
  /\ translator = NewTranslator(TestConfig)
  /\ tPc = "idle"
  /\ obj = (<< >> :> << >>)
  /\ targetLang = "en"
  /\ tStack = << >>
  /\ tResult = << >>
  /\ tCalls = << >>
  /\ tError = NoError
  /\ tReturned = << >>

\* the batch version of processTranslationsParallel is not running
NoBatch ==
  /\ bPc = "idle"
  /\ bLanguages = << >>
  /\ bOptions = [maxWorkers |-> 1, maxRetries |-> 1, retryDelay |-> 2000,
                 retryMultiplier |-> << 3, 2 >>]
  /\ bTasks = << >>
  /\ bBatch = 0
  /\ bResults = << >>
  /\ bWritten = {}
  /\ bStarted = << >>

Init ==
  /\ Invocation(Documents, TargetLists, MaxWorkers, MaxQueueRetries)
  /\ NoRetry /\ NoTranslator /\ NoBatch

DriverInit ==
  /\ Invocation(DriverDocuments, DriverTargetLists, MaxWorkers, MaxQueueRetries)
  /\ NoRetry /\ NoTranslator /\ NoBatch

\* saveErrorLog: the report of a language is added to translation_errors.json.
\* No function of the queue version calls it.
saveErrorLog(log, languageCode, failedKeys) ==
  Put(log, languageCode,
      [timestamp |-> "now", failedKeys |-> failedKeys,
       status |-> "partial_translation"])

\* an initialisation that keeps the cache
initializeProgressKeepsCache(s) ==
  [s EXCEPT
     !.progress = [l \in Range(targetLanguages) |-> 0],
     !.processedLanguages = {}]

\* initializeProgress
initializeProgress(s) ==
  [s EXCEPT
     !.translationCache = << >>,
     !.progress = [l \in Range(targetLanguages) |-> 0],
     !.processedLanguages = {}]

(***************************************************************************)
(* processTranslationsParallel, from its call to the first await: the      *)
(* document is read, the static state is initialised and the run of the    *)
(* first language starts.                                                  *)
(***************************************************************************)
processTranslationsParallel ==
  /\ pc = "idle"
  /\ pc' = "running"
  /\ totalKeys' = countTranslatableKeys(inputData, << >>)
  /\ Becomes(translateLanguage(initializeProgress(Cur), << >>))
  /\ UNCHANGED << inputData, targetLanguages, maxWorkers, maxRetries, results,
                  written, providerLog, thrown, errorLog, rvars,
                  tvars, bvars >>

\* the error of readFileSync or JSON.parse is thrown as it is
ReadFailsUnwrapped ==
  /\ pc = "idle"
  /\ pc' = "failed"
  /\ thrown' = "File not found"
  /\ UNCHANGED << inputData, targetLanguages, maxWorkers, maxRetries, langIdx,
                  results, written, translationCache, progress, totalKeys,
                  processedLanguages, activeRequests, frames, microtasks,
                  calls, providerCalls, providerLog, errorLog, rvars,
                  tvars, bvars >>

\* readJsonFile throws: the file cannot be read or parsed
ReadFails ==
  /\ pc = "idle"
  /\ pc' = "failed"
  /\ thrown' = "Failed to read JSON file: File not found"
  /\ UNCHANGED << inputData, targetLanguages, maxWorkers, maxRetries, langIdx,
                  results, written, translationCache, progress, totalKeys,
                  processedLanguages, activeRequests, frames, microtasks,
                  calls, providerCalls, providerLog, errorLog, rvars,
                  tvars, bvars >>

\* the outcomes of the provider calls made for a leaf in a run, in order
Logged(log, idx, leaf) ==
  IF << idx, leaf >> \in DOMAIN log THEN log[<< idx, leaf >>] ELSE << >>

(***************************************************************************)
(* The provider.  A call in flight settles at any time: it returns a       *)
(* translation, returns an empty result, or fails.  The continuation of    *)
(* the awaiting task is queued.                                            *)
(***************************************************************************)
ProviderSettles(leaf, outcome) ==
  /\ leaf \in calls
  /\ calls' = calls \ {leaf}
  /\ microtasks' = Append(microtasks, Job("provider", Parent(leaf), Last(leaf), outcome))
  /\ providerLog' = Put(providerLog, << langIdx, leaf >>,
                         Logged(providerLog, langIdx, leaf) \o << outcome >>)
  /\ UNCHANGED << pc, inputData, targetLanguages, maxWorkers, maxRetries,
                  langIdx, results, written, translationCache, progress,
                  totalKeys, processedLanguages, activeRequests, frames,
                  providerCalls, thrown, errorLog, rvars,
                  tvars, bvars >>

ProviderResolves == \E leaf \in calls : ProviderSettles(leaf, "ok")

ProviderReturnsEmpty == \E leaf \in calls : ProviderSettles(leaf, "empty")

ProviderRejects == \E leaf \in calls : ProviderSettles(leaf, "error")

(***************************************************************************)
(* The promise reaction jobs.  The job at the head of the queue runs.      *)
(***************************************************************************)
HeadIs(type) == Len(microtasks) > 0 /\ Head(microtasks).type = type

Popped == [Cur EXCEPT !.microtasks = Tail(@)]

Static == << pc, inputData, targetLanguages, maxWorkers, maxRetries, results,
             written, totalKeys, providerLog, thrown, errorLog, rvars,
                  tvars, bvars >>

\* a task body that takes an empty provider result for a translation
TaskTranslatedOrEmpty ==
  /\ HeadIs("provider") /\ Head(microtasks).outcome \in { "ok", "empty" }
  /\ LET j  == Head(microtasks)
         e  == EntryAt(inputData, j.frame, j.key)
         tr == IF j.outcome = "ok" THEN Translate(e.text, LangOf(Cur)) ELSE ""
         s1 == [Popped EXCEPT
                  !.activeRequests = @ \ {j.frame \o << j.key >>},
                  !.translationCache = cacheTranslation(@, e.text, LangOf(Cur), tr)]
     IN Becomes(Settle(Complete(s1, j.frame, j.key, tr), j.frame, j.key))
  /\ UNCHANGED Static

\* translateText after its await (lines 270-279) and the task body after its
\* await, when the provider returned a translation (lines 321-325 and 337)
TaskTranslated ==
  /\ HeadIs("provider") /\ Head(microtasks).outcome = "ok"
  /\ LET j  == Head(microtasks)
         e  == EntryAt(inputData, j.frame, j.key)
         tr == Translate(e.text, LangOf(Cur))
         s1 == [Popped EXCEPT
                  !.activeRequests = @ \ {j.frame \o << j.key >>},
                  !.translationCache = cacheTranslation(@, e.text, LangOf(Cur), tr)]
     IN Becomes(Settle(Complete(s1, j.frame, j.key, tr), j.frame, j.key))
  /\ UNCHANGED Static

\* a catch that records nothing for the key
TaskFailedOmitsKey ==
  /\ HeadIs("provider") /\ Head(microtasks).outcome # "ok"
  /\ LET j  == Head(microtasks)
         s1 == [Popped EXCEPT !.activeRequests = @ \ {j.frame \o << j.key >>}]
     IN Becomes(Settle(s1, j.frame, j.key))
  /\ UNCHANGED Static

\* translateText after its await when the provider failed or returned an
\* invalid result, and the catch of the task body (lines 338-341)
TaskFailed ==
  /\ HeadIs("provider") /\ Head(microtasks).outcome # "ok"
  /\ LET j  == Head(microtasks)
         e  == EntryAt(inputData, j.frame, j.key)
         s1 == [Popped EXCEPT !.activeRequests = @ \ {j.frame \o << j.key >>}]
     IN Becomes(Settle(Assign(s1, j.frame, j.key, "str", FailureMarker(e)),
                       j.frame, j.key))
  /\ UNCHANGED Static

\* the task body after await this.translateLanguage(...) (line 337)
NestedReturned ==
  /\ HeadIs("nested")
  /\ LET j == Head(microtasks)
     IN Becomes(Settle(Assign(Popped, j.frame, j.key, "obj", ""), j.frame, j.key))
  /\ UNCHANGED Static

\* promise.finally(() => inProgress.delete(promise))
FinallyJob ==
  /\ HeadIs("finally")
  /\ LET j == Head(microtasks)
     IN Becomes([Popped EXCEPT
                   !.frames[j.frame].inProgress = Remove(@, j.key),
                   !.frames[j.frame].settled = @ \ {j.key}])
  /\ UNCHANGED Static

\* a promise of Promise.race settled: the race resolves, once
RaceJob ==
  /\ HeadIs("race")
  /\ LET j == Head(microtasks)
     IN Becomes(IF frames[j.frame].status = "waiting"
                  THEN [Popped EXCEPT
                          !.frames[j.frame].status = "resuming",
                          !.microtasks = Append(@, Job("resume", j.frame, "", ""))]
                  ELSE Popped)
  /\ UNCHANGED Static

\* translateLanguage after await Promise.race(...): the loop goes on
ResumeJob ==
  /\ HeadIs("resume")
  /\ LET j == Head(microtasks)
     IN Becomes(RunLoop([Popped EXCEPT !.frames[j.frame].status = "running"],
                        j.frame))
  /\ UNCHANGED Static

\* the for loop of processTranslationsParallel goes to the next language, or
\* the function returns
\* a loop that empties the cache before the run of the next language
NextLanguageWithEmptyCache(s) ==
  IF s.langIdx < Len(targetLanguages)
    THEN translateLanguage([s EXCEPT !.langIdx = @ + 1,
                                     !.translationCache = << >>,
                                     !.frames = NoFrames(inputData)], << >>)
    ELSE s

NextLanguage(s) ==
  IF s.langIdx < Len(targetLanguages)
    THEN translateLanguage([s EXCEPT !.langIdx = @ + 1,
                                     !.frames = NoFrames(inputData)], << >>)
    ELSE s

\* the loop goes on to the next language and leaves the saving for later
LanguageSavedLater ==
  /\ HeadIs("driver")
  /\ Becomes(NextLanguage([Popped EXCEPT !.processedLanguages = @ \cup {LangOf(Cur)}]))
  /\ pc' = IF langIdx < Len(targetLanguages) THEN "running" ELSE "done"
  /\ UNCHANGED << inputData, targetLanguages, maxWorkers, maxRetries, results,
                  written, totalKeys, providerLog, thrown, errorLog, rvars,
                  tvars, bvars >>

\* processTranslationsParallel after await this.translateLanguage(...):
\* the document is saved (lines 388-391)
LanguageSaved ==
  /\ HeadIs("driver")
  /\ LET l == LangOf(Cur)
     IN /\ written' = Put(written, l, Assembled(Cur))
        /\ results' = Put(results, l, l \o ".json")
        /\ Becomes(NextLanguage([Popped EXCEPT !.processedLanguages = @ \cup {l}]))
  /\ pc' = IF langIdx < Len(targetLanguages) THEN "running" ELSE "done"
  /\ UNCHANGED << inputData, targetLanguages, maxWorkers, maxRetries,
                  totalKeys, providerLog, thrown, errorLog, rvars,
                  tvars, bvars >>

\* saveTranslation throws: the catch of lines 400-404
SaveFails ==
  /\ HeadIs("driver")
  /\ results' = Put(results, LangOf(Cur), "ERROR: Failed to save translation: Write error")
  /\ Becomes(NextLanguage(Popped))
  /\ pc' = IF langIdx < Len(targetLanguages) THEN "running" ELSE "done"
  /\ UNCHANGED << inputData, targetLanguages, maxWorkers, maxRetries, written,
                  totalKeys, providerLog, thrown, errorLog, rvars,
                  tvars, bvars >>

Next ==
  \/ processTranslationsParallel
  \/ ReadFails
  \/ ProviderResolves
  \/ ProviderReturnsEmpty
  \/ ProviderRejects
  \/ TaskTranslated
  \/ TaskFailed
  \/ NestedReturned
  \/ FinallyJob
  \/ RaceJob
  \/ ResumeJob
  \/ LanguageSaved
  \/ SaveFails

Spec == Init /\ [][Next]_vars

DriverSpec == DriverInit /\ [][Next]_vars

(***************************************************************************)
(* Properties of the queue version.                                        *)
(***************************************************************************)
\* the translateLanguage call of the root has returned its document
RootReturned == frames[<< >>].status = "returned"

Keys(entries) == [i \in DOMAIN entries |-> entries[i].key]

\* the string leaves of the input document, as << path of the object, index >>
StringLeaves ==
  { x \in UNION { {p} \X DOMAIN inputData[p] : p \in DOMAIN inputData } :
      inputData[x[1]][x[2]].kind = "str" }

LeafPath(x) == x[1] \o << inputData[x[1]][x[2]].key >>

SourceText(x) == inputData[x[1]][x[2]].text

\* the values a document holds for the key of leaf x
ValuesAt(d, x) ==
  { e.text : e \in { r \in Range(d[x[1]]) : r.key = inputData[x[1]][x[2]].key } }

Failed(idx, x) ==
  LET log == Logged(providerLog, idx, LeafPath(x))
  IN log # << >> /\ log[Len(log)] # "ok"

\* a running invocation always has something left to happen: a provider call
\* in flight or a queued reaction job
NeverStuck == pc = "running" => (calls # {} \/ microtasks # << >>)

\* C1: during a language run the number of provider calls in flight, counted
\* over all nesting levels, never exceeds maxWorkers.
C1_InFlightWithinMaxWorkers == Cardinality(calls) <= maxWorkers

\* C2: the document returned by translateLanguage lists its keys, at every
\* nesting level, in the key order of the source document.
C2_KeyOrderIsSourceOrder ==
  RootReturned =>
    \A p \in DOMAIN inputData : Keys(frames[p].result) = Keys(inputData[p])

\* C3: whatever leaves fail, the returned document has exactly the keys and
\* the nesting of the input: no key omitted, none added, objects stay objects.
C3_KeySetAndNestingPreserved ==
  RootReturned =>
    \A p \in DOMAIN inputData :
      /\ frames[p].status = "returned"
      /\ Len(frames[p].result) = Len(inputData[p])
      /\ Range(Keys(frames[p].result)) = Range(Keys(inputData[p]))
      /\ \A r \in Range(frames[p].result) : \A e \in Range(inputData[p]) :
           r.key = e.key => ((r.kind = "obj") <=> (e.kind = "obj"))

C3_Witness ==
  /\ RootReturned
  /\ inputData = DocNested
  /\ \E r \in Range(frames[<< "b" >>].result) :
       r.key = "d" /\ r.text = "[TRANSLATION_FAILED] shijie"

\* C4: a leaf whose translation failed gets a failure marker embedding its
\* original text, every other leaf is still resolved with its translation,
\* and the run goes on until translateLanguage returns its document.
C4_FailedLeafMarkedOthersResolved ==
  /\ NeverStuck
  /\ RootReturned =>
       \A x \in StringLeaves :
         ValuesAt(Assembled(Cur), x) =
           IF Failed(langIdx, x)
             THEN { "[TRANSLATION_FAILED] " \o SourceText(x) }
             ELSE { normalizedLanguages[langIdx] \o ":" \o SourceText(x) }

C4_Witness ==
  /\ RootReturned
  /\ \E x \in StringLeaves : Failed(langIdx, x)
  /\ \E x \in StringLeaves : ~Failed(langIdx, x)

\* the run index of a requested code
IndexOf(code) == CHOOSE i \in DOMAIN targetLanguages : targetLanguages[i] = code

Outcomes(idx) ==
  UNION { Range(providerLog[k]) : k \in { y \in DOMAIN providerLog : y[1] = idx } }

NoSaveFailure == \A l \in DOMAIN results : results[l] = l \o ".json"

ProviderSucceedsForEnFailsForJa ==
  /\ Range(targetLanguages) = { "en", "ja" }
  /\ Outcomes(IndexOf("en")) \subseteq { "ok" }
  /\ "ok" \notin Outcomes(IndexOf("ja"))

\* C5: with targets en and ja, a provider that always succeeds for en and
\* always fails for ja, the invocation returns without throwing, the en
\* output has every string leaf translated and the ja output has every string
\* leaf replaced by a failure marker, in whichever order the two run.
C5_PartialFailureContained ==
  /\ NeverStuck
  /\ (pc = "done" /\ ProviderSucceedsForEnFailsForJa /\ NoSaveFailure) =>
       /\ thrown = ""
       /\ DOMAIN written = { "en", "ja" }
       /\ \A x \in StringLeaves :
            /\ ValuesAt(written["en"], x) = { "en:" \o SourceText(x) }
            /\ ValuesAt(written["ja"], x) = { "[TRANSLATION_FAILED] " \o SourceText(x) }

C5_Witness ==
  /\ pc = "done" /\ ProviderSucceedsForEnFailsForJa /\ NoSaveFailure
  /\ inputData = DocPair
  /\ targetLanguages = << "ja", "en" >>

\* the number of leaf positions that hold a text
Occurrences(text) == Cardinality({ x \in StringLeaves : SourceText(x) = text })

\* C6: a source string at k leaf positions causes at most k provider calls,
\* and exactly one when maxWorkers = 1 and the provider succeeds.
C6_CacheBoundsProviderCalls ==
  /\ \A c \in DOMAIN providerCalls : providerCalls[c] <= Occurrences(c[3])
  /\ (pc = "done" /\ maxWorkers = 1 /\ Outcomes(1) \subseteq { "ok" }) =>
       \A x \in StringLeaves :
         LET c == << 1, normalizedLanguages[1], SourceText(x) >>
         IN c \in DOMAIN providerCalls /\ providerCalls[c] = 1

C6_Witness ==
  /\ pc = "done" /\ maxWorkers = 1 /\ Outcomes(1) = { "ok" }
  /\ inputData = DocDeep

\* C9: a leaf gets a failure marker only after maxRetries provider attempts
\* for it have failed; a leaf that fails fewer times and then succeeds gets
\* its translation.
C9_MarkerOnlyAfterMaxRetries ==
  RootReturned =>
    \A x \in StringLeaves :
      ("[TRANSLATION_FAILED] " \o SourceText(x)) \in ValuesAt(Assembled(Cur), x)
        => Len(SelectSeq(Logged(providerLog, langIdx, LeafPath(x)),
                         LAMBDA o : o # "ok")) = maxRetries

\* the canonical code of every requested code of the model
CanonicalCode(code) ==
  CASE code \in { "kr", "KR" } -> "ko"
    [] code \in { "jp", "JP" } -> "ja"
    [] code \in { "cn" } -> "zh-CN"
    [] code \in { "tw", "Tw" } -> "zh-TW"
    [] OTHER -> code

\* C10: every translation call carries the canonical code of the requested
\* code, aliases matched case-insensitively, other codes unchanged; no call
\* carries the alias "kr".
C10_TranslatorGetsCanonicalCode ==
  \A c \in DOMAIN providerCalls :
    c[2] = CanonicalCode(targetLanguages[c[1]]) /\ c[2] # "kr"

C10_Witness ==
  \E c \in DOMAIN providerCalls : targetLanguages[c[1]] = "JP" /\ c[2] = "ja"

SaveError == "ERROR: Failed to save translation: Write error"

\* C11: the returned map has exactly one entry for each requested code, keyed
\* by the code as requested, and each value is the output location of that
\* language or an error marker.
C11_ResultsKeyedByRequestedCode ==
  pc = "done" =>
    /\ DOMAIN results = Range(targetLanguages)
    /\ \A l \in DOMAIN results :
         results[l] \in { CanonicalCode(l) \o ".json", SaveError }

\* C12: a requested language whose canonical code is not supported fails at
\* once: no provider call is issued for it, no output is written for it and
\* it is reported as failed.
C12_UnsupportedLanguageFailsFast ==
  /\ \A c \in DOMAIN providerCalls : c[2] \in SUPPORTED_LANGUAGES
  /\ \A l \in DOMAIN written : l \in SUPPORTED_LANGUAGES
  /\ \A l \in DOMAIN results :
       l \notin SUPPORTED_LANGUAGES => results[l] # l \o ".json"

\* the non-string scalar entries of an object of the input
Scalars(p) == { e \in Range(inputData[p]) : e.kind \in { "num", "bool", "null" } }

\* C13: in the document a language run returns, every number, boolean and
\* null has exactly the value it has in the input, and no provider call is
\* made for it.
C13_ScalarLeavesUnchanged ==
  /\ \A k \in DOMAIN providerLog :
       \E x \in StringLeaves : LeafPath(x) = k[2]
  /\ RootReturned =>
       \A p \in DOMAIN inputData :
         \A e \in Scalars(p) : e \in Range(frames[p].result)

\* the runs in which a leaf failed or whose output could not be saved
FailedRuns ==
  { i \in DOMAIN targetLanguages :
      \/ \E x \in StringLeaves : Logged(providerLog, i, LeafPath(x)) # << >>
                                    /\ Failed(i, x)
      \/ /\ normalizedLanguages[i] \in DOMAIN results
         /\ results[normalizedLanguages[i]] = SaveError }

\* C16: when the invocation is over, translation_errors.json holds a report,
\* with timestamp, failed keys and status, for exactly the languages in which
\* a leaf or the language itself failed; it is not written when nothing fails.
C16_ErrorReportWritten ==
  pc = "done" =>
    DOMAIN errorLog = { normalizedLanguages[i] : i \in FailedRuns }

\* C17: when the input document cannot be read or parsed, the call fails with
\* 'Failed to read JSON file: ...', and no language run is started, no
\* provider call is issued and no output is written.
C17_ReadFailureFailsWholeCall ==
  pc = "failed" =>
    /\ thrown = "Failed to read JSON file: " \o "File not found"
    /\ \A p \in DOMAIN frames : frames[p].status = "absent"
    /\ calls = {} /\ microtasks = << >>
    /\ providerCalls = << >> /\ providerLog = << >>
    /\ written = << >> /\ results = << >>

C17_Witness == pc = "failed" /\ thrown # ""

\* C18: when saveTranslation throws for a language, the invocation is
\* aborted: the call fails and no later language is translated.
C18_SaveFailureAbortsInvocation ==
  (\E l \in DOMAIN results : results[l] = SaveError) =>
    /\ pc = "failed" /\ thrown # ""
    /\ langIdx = CHOOSE i \in DOMAIN targetLanguages :
                   normalizedLanguages[i] \in DOMAIN results
                   /\ results[normalizedLanguages[i]] = SaveError

\* the values a key of the input can get: its translation or its failure
\* marker, the nested document, or String(value)
ResultValues(e, l) ==
  CASE e.kind = "str" -> { Entry(e.key, "str", l \o ":" \o e.text),
                           Entry(e.key, "str", "[TRANSLATION_FAILED] " \o e.text) }
    [] e.kind = "obj" -> { Entry(e.key, "obj", "") }
    [] e.kind = "null" -> { Entry(e.key, "str", "null") }
    [] OTHER -> { Entry(e.key, "str", e.text) }

\* C23: in a language run every key of the input, at every nesting level,
\* gets its result assigned exactly once, a translated or copied value or a
\* failure marker, and all assignments of a translateLanguage call have
\* happened when the call returns.
C23_EveryKeyAssignedOnce ==
  \A p \in DOMAIN inputData :
    LET res == frames[p].result
    IN /\ \A i, j \in DOMAIN res : res[i].key = res[j].key => i = j
       /\ \A r \in Range(res) :
            \E e \in Range(inputData[p]) :
              r \in ResultValues(e, normalizedLanguages[langIdx])
       /\ frames[p].status = "returned" =>
            /\ Range(Keys(res)) = Range(Keys(inputData[p]))
            /\ frames[p].queue = << >>
            /\ \A e \in Range(inputData[p]) :
                 e.kind = "obj" => frames[p \o << e.key >>].status = "returned"

C23_Witness ==
  /\ RootReturned
  /\ inputData = DocDeep
  /\ frames[<< "o", "p" >>].result = << Entry("q", "str", "[TRANSLATION_FAILED] nihao") >>
  /\ frames[<< >>].result[1].key = "r"

\* C27: the language runs are strictly sequential, in the order requested:
\* a provider call of a language is issued only when the run of every
\* language requested before it is over and its output is saved or its
\* failure recorded.
C27_LanguageRunsSequential ==
  /\ \A c \in DOMAIN providerCalls :
       /\ c[1] <= langIdx
       /\ \A j \in 1..(c[1] - 1) :
            LET l == normalizedLanguages[j]
            IN /\ l \in DOMAIN results
               /\ results[l] = l \o ".json" => l \in DOMAIN written
               /\ results[l] # l \o ".json" => results[l] = SaveError
  /\ \A k \in DOMAIN providerLog : k[1] <= langIdx
  /\ \A leaf \in calls :
       frames[Parent(leaf)].status \in { "running", "waiting", "resuming" }

C27_Witness ==
  /\ targetLanguages = << "ja", "en" >>
  /\ langIdx = 2
  /\ calls # {}
  /\ results = ("ja" :> "ja.json")
  /\ \E c \in DOMAIN providerCalls : c[1] = 2 /\ c[2] = "en"

\* the pending tasks of a call before a step; a call not yet made has all
\* the entries of its object pending
PendingBefore(f) ==
  IF frames[f].status = "absent" THEN inputData[f] ELSE frames[f].queue

InProgressBefore(f) ==
  IF frames[f].status = "absent" THEN << >> ELSE frames[f].inProgress

\* the tasks a step starts in a call
StartedBy(f) ==
  SubSeq(PendingBefore(f), 1, Len(PendingBefore(f)) - Len(frames'[f].queue))

\* C28: in every step, each call of translateLanguage starts pending tasks
\* from the head of its queue only, in source key order, and never again;
\* it never has more than maxWorkers tasks in inProgress; and when it comes
\* to wait, no task is pending or maxWorkers tasks are in inProgress (a
\* task is in inProgress from its start until its finally callback ran).
C28_TasksStartInOrderWorkConserving ==
  [][\A f \in DOMAIN inputData :
       frames'[f].status # "absent" =>
         /\ Len(frames'[f].queue) <= Len(PendingBefore(f))
         /\ frames'[f].queue =
              SubSeq(PendingBefore(f),
                     Len(PendingBefore(f)) - Len(frames'[f].queue) + 1,
                     Len(PendingBefore(f)))
         /\ StartedBy(f) # << >> =>
              frames'[f].inProgress = InProgressBefore(f) \o Keys(StartedBy(f))
         /\ Len(frames'[f].inProgress) <= maxWorkers
         /\ (frames'[f].status = "waiting" /\ frames[f].status # "waiting") =>
              \/ frames'[f].queue = << >>
              \/ Len(frames'[f].inProgress) = maxWorkers]_vars

C28_Witness ==
  /\ inputData = DocFlat
  /\ maxWorkers = 2
  /\ frames[<< >>].status = "waiting"
  /\ frames[<< >>].inProgress = << "b", "c" >>
  /\ frames[<< >>].queue = << >>

(***************************************************************************)
(* Overlapping invocations.  translationCache, progress, totalKeys and     *)
(* processedLanguages are static fields of FileProcessor: a second         *)
(* invocation of processTranslationsParallel, made with the same arguments *)
(* while the first one is running, acts on the same fields.  The second    *)
(* invocation is described by what it does to them.                        *)
(***************************************************************************)
OverlapDocuments == { DocFlat, DocPair }

OverlapTargetLists == { << "en" >> }

OverlapInit ==
  /\ Invocation(OverlapDocuments, OverlapTargetLists, MaxWorkers, 1)
  /\ NoRetry /\ NoTranslator /\ NoBatch

\* the other invocation reaches initializeProgress (line 372)
OtherInvocationStarts ==
  /\ pc = "running"
  /\ totalKeys' = countTranslatableKeys(inputData, << >>)
  /\ Becomes(initializeProgress(Cur))
  /\ UNCHANGED << pc, inputData, targetLanguages, maxWorkers, maxRetries,
                  results, written, providerLog, thrown, errorLog, rvars,
                  tvars, bvars >>

\* a task of the other invocation has the translation of a leaf: lines
\* 322-325, cacheTranslation and updateProgress
OtherInvocationCaches ==
  /\ pc = "running"
  /\ \E x \in StringLeaves, i \in DOMAIN targetLanguages, n \in 1..totalKeys :
       LET l == normalizedLanguages[i]
           s == [Cur EXCEPT
                   !.translationCache =
                      cacheTranslation(@, SourceText(x), l, Translate(SourceText(x), l))]
       IN Becomes(updateProgress(s, l, n))
  /\ UNCHANGED Static

OverlapNext ==
  \/ Next
  \/ OtherInvocationStarts
  \/ OtherInvocationCaches

OverlapSpec == OverlapInit /\ [][OverlapNext]_vars

\* the provider calls the invocation made for the text of a leaf
CallsFor(x) ==
  LET c == << 1, normalizedLanguages[1], SourceText(x) >>
  IN IF c \in DOMAIN providerCalls THEN providerCalls[c] ELSE 0

\* C22: an invocation that overlaps with another one makes the provider
\* calls it makes when run alone: with maxWorkers = 1 and a provider that
\* succeeds, one call for every distinct text, the first time it is met;
\* and while it runs, what it cached for its language stays cached.
C22_OverlappingInvocationsIndependent ==
  /\ (pc = "done" /\ maxWorkers = 1 /\ Outcomes(1) \subseteq { "ok" }) =>
       \A x \in StringLeaves : CallsFor(x) = 1
  /\ pc = "running" =>
       \A k \in DOMAIN providerLog :
         (k[1] = langIdx /\ providerLog[k] = << "ok" >>
            /\ frames[Parent(k[2])].status = "returned") =>
           getCachedTranslation(translationCache, EntryAt(inputData, Parent(k[2]), Last(k[2])).text,
                                normalizedLanguages[langIdx]) # ""

(***************************************************************************)
(* Provider calls that never return.  The event loop runs every queued     *)
(* reaction job; nothing makes a provider call in flight settle, and the   *)
(* code sets no timer on it.                                               *)
(***************************************************************************)
PendingInit ==
  /\ Invocation({ DocFlat, DocPair }, { << "en" >> }, MaxWorkers, 1)
  /\ NoRetry /\ NoTranslator /\ NoBatch

\* the event loop runs the job at the head of the queue
JobRuns ==
  \/ TaskTranslated
  \/ TaskFailed
  \/ NestedReturned
  \/ FinallyJob
  \/ RaceJob
  \/ ResumeJob
  \/ LanguageSaved
  \/ SaveFails

PendingSpec == PendingInit /\ [][Next]_vars /\ WF_vars(JobRuns)

\* C25: a provider attempt that does not return is ended by requestTimeout
\* and counted as failed, so no provider call blocks its leaf, and with it
\* the language run, forever: a started invocation always comes to its end.
C25_NoAttemptBlocksForever == (pc = "running") ~> (pc = "done")

(***************************************************************************)
(* Termination.  The event loop runs every queued job and every provider   *)
(* call in flight eventually succeeds or fails.                            *)
(***************************************************************************)
TerminationDocuments == { DocFlat, DocNested, DocMixed, DocDeep }

TerminationInit ==
  /\ Invocation(TerminationDocuments, { << "en" >> }, MaxWorkers, 1)
  /\ NoRetry /\ NoTranslator /\ NoBatch

ProviderAnswers ==
  \/ ProviderResolves
  \/ ProviderReturnsEmpty
  \/ ProviderRejects

TerminationSpec ==
  TerminationInit /\ [][Next]_vars /\ WF_vars(JobRuns) /\ WF_vars(ProviderAnswers)

\* the paths of the objects of the documents
ObjectPaths == { << >>, << "b" >>, << "e" >>, << "o" >>, << "o", "p" >> }

Called(f) ==
  f \in DOMAIN frames /\ frames[f].status \in { "running", "waiting", "resuming" }

Returned(f) == f \in DOMAIN frames /\ frames[f].status = "returned"

\* C29: when every provider call eventually succeeds or fails, every call
\* of translateLanguage, at every nesting depth, for every maxWorkers and
\* every pattern of failures, returns, and then its queue and its
\* inProgress set are empty.
C29_TranslateLanguageTerminates ==
  /\ [](\A f \in ObjectPaths :
          Returned(f) => frames[f].queue = << >> /\ frames[f].inProgress = << >>)
  /\ (\E f \in ObjectPaths : Called(f))
       ~> (\A f \in ObjectPaths : ~Called(f) /\ (f \in DOMAIN frames => Returned(f)))

C29_Witness ==
  /\ inputData = DocDeep
  /\ maxWorkers = 1
  /\ Returned(<< "o", "p" >>) /\ Returned(<< "o" >>) /\ Returned(<< >>)
  /\ frames[<< "o" >>].inProgress = << >>
  /\ Outcomes(1) = { "ok", "error" }

\* the leaves of the source that hold a text
LeavesWith(text) == { x \in StringLeaves : SourceText(x) = text }

\* C30: every value of the translation cache, for a text and a language, is
\* the non-empty string a successful provider call returned for that text
\* and that language, never a failure marker or an invalid result; so when
\* a language run ends with a text not cached, every leaf with that text
\* called the provider.
C30_CacheHoldsOnlyProviderTranslations ==
  /\ \A l \in DOMAIN translationCache : \A t \in DOMAIN translationCache[l] :
       /\ translationCache[l][t] # ""
       /\ translationCache[l][t] = Translate(t, l)
       /\ \E k \in DOMAIN providerLog :
            /\ normalizedLanguages[k[1]] = l
            /\ "ok" \in Range(providerLog[k])
            /\ \E x \in LeavesWith(t) : LeafPath(x) = k[2]
  /\ RootReturned =>
       \A x \in StringLeaves :
         getCachedTranslation(translationCache, SourceText(x), LangOf(Cur)) = ""
           => Logged(providerLog, langIdx, LeafPath(x)) # << >>

\* leaf a of {"a":"nihao","b":"nihao",...} failed, leaf b called the provider
\* again and its translation is what the cache holds
C30_Witness ==
  /\ inputData = DocFlat /\ maxWorkers = 1 /\ langIdx = 1 /\ RootReturned
  /\ Failed(1, << << >>, 1 >>)
  /\ Logged(providerLog, 1, << "b" >>) = << "ok" >>
  /\ providerCalls[<< 1, LangOf(Cur), "nihao" >>] = 2
  /\ getCachedTranslation(translationCache, "nihao", LangOf(Cur))
       = Translate("nihao", LangOf(Cur))

\* C31: the cache is keyed by the pair of source text and target language:
\* what is stored for a text and one language is never what a lookup of the
\* text and another language of the invocation returns, and every string
\* leaf of a saved document holds the translation to the language of that
\* document or its failure marker.
C31_CacheKeyedByTextAndLanguage ==
  /\ \A l1 \in DOMAIN translationCache : \A t \in DOMAIN translationCache[l1] :
       \A l2 \in Range(normalizedLanguages) \ {l1} :
         getCachedTranslation(translationCache, t, l2) # translationCache[l1][t]
  /\ \A l \in DOMAIN written : \A x \in StringLeaves :
       ValuesAt(written[l], x) \subseteq
         { Translate(SourceText(x), l), "[TRANSLATION_FAILED] " \o SourceText(x) }

\* both languages of one invocation translated the same text
C31_Witness ==
  /\ pc = "done" /\ targetLanguages = << "en", "ja" >>
  /\ DOMAIN written = { "en", "ja" }
  /\ getCachedTranslation(translationCache, "nihao", "en") = "en:nihao"
  /\ getCachedTranslation(translationCache, "nihao", "ja") = "ja:nihao"
  /\ \E x \in StringLeaves :
       /\ ValuesAt(written["en"], x) = { "en:nihao" }
       /\ ValuesAt(written["ja"], x) = { "ja:nihao" }

(***************************************************************************)
(* An invocation that follows an earlier one of the same process: the      *)
(* static fields hold what the earlier invocation left in them.            *)
(***************************************************************************)
\* the cache an earlier invocation left: it translated the texts to en, or
\* to en and ja
LeftCaches ==
  { "en" :> ("nihao" :> "en:nihao" @@ "shijie" :> "en:shijie"),
    ("en" :> ("nihao" :> "en:nihao" @@ "shijie" :> "en:shijie"))
      @@ ("ja" :> ("nihao" :> "ja:nihao" @@ "shijie" :> "ja:shijie")) }

LaterDocuments == { DocFlat, DocPair }

LaterTargetLists == { << "en" >>, << "ja" >> }

LaterInit ==
  /\ pc = "idle"
  /\ inputData \in LaterDocuments
  /\ targetLanguages \in LaterTargetLists
  /\ maxWorkers \in 1..MaxWorkers
  /\ maxRetries = 1
  /\ langIdx = 1
  /\ results = << >>
  /\ written = << >>
  /\ translationCache \in LeftCaches
  /\ progress = [l \in DOMAIN translationCache |-> 2]
  /\ totalKeys = 2
  /\ processedLanguages = DOMAIN translationCache
  /\ activeRequests = {}
  /\ frames = NoFrames(inputData)
  /\ microtasks = << >>
  /\ calls = {}
  /\ providerCalls = << >>
  /\ providerLog = << >>
  /\ thrown = ""
  /\ errorLog = << >>
  /\ NoRetry /\ NoTranslator /\ NoBatch

LaterSpec == LaterInit /\ [][Next]_vars

\* C32: the cache does not survive an invocation: once an invocation has
\* started, the cache holds only what a provider call of this invocation
\* returned, and every text of the document is sent to the provider at
\* least once in every invocation that ends, whatever an earlier
\* invocation translated.
C32_CacheEmptyAtStartOfInvocation ==
  /\ pc \in { "running", "done" } =>
       \A l \in DOMAIN translationCache : \A t \in DOMAIN translationCache[l] :
         \E k \in DOMAIN providerLog :
           /\ normalizedLanguages[k[1]] = l
           /\ "ok" \in Range(providerLog[k])
           /\ \E x \in LeavesWith(t) : LeafPath(x) = k[2]
  /\ pc = "done" =>
       \A x \in StringLeaves :
         << 1, normalizedLanguages[1], SourceText(x) >> \in DOMAIN providerCalls

\* the invocation translated to en the texts the earlier one had translated
\* to en and ja, and called the provider for each of them
C32_Witness ==
  /\ pc = "done" /\ targetLanguages = << "en" >> /\ inputData = DocPair
  /\ maxWorkers = 1 /\ Outcomes(1) = { "ok" }
  /\ translationCache = ("en" :> ("nihao" :> "en:nihao" @@ "shijie" :> "en:shijie"))
  /\ providerCalls = (<< 1, "en", "nihao" >> :> 1) @@ (<< 1, "en", "shijie" >> :> 1)

(***************************************************************************)
(* A provider whose answers vary: a call that succeeds returns one of two  *)
(* translations of the text.                                               *)
(***************************************************************************)
\* the other translation the provider may return
TranslateOtherwise(text, l) == l \o ":" \o text \o "*"

VariantDocuments == { DocFlat, DocDeep }

VariantInit ==
  /\ Invocation(VariantDocuments, { << "en" >> }, MaxWorkers, 1)
  /\ NoRetry /\ NoTranslator /\ NoBatch

\* a provider call in flight returns the other translation
ProviderResolvesOtherwise ==
  \E leaf \in calls :
    /\ calls' = calls \ {leaf}
    /\ microtasks' = Append(microtasks, Job("variant", Parent(leaf), Last(leaf), "ok"))
    /\ providerLog' = Put(providerLog, << langIdx, leaf >>,
                           Logged(providerLog, langIdx, leaf) \o << "ok" >>)
    /\ UNCHANGED << pc, inputData, targetLanguages, maxWorkers, maxRetries,
                    langIdx, results, written, translationCache, progress,
                    totalKeys, processedLanguages, activeRequests, frames,
                    providerCalls, thrown, errorLog, rvars,
                    tvars, bvars >>

\* the task body after its await, when the provider returned the other
\* translation (lines 321-325 and 337)
TaskTranslatedOtherwise ==
  /\ HeadIs("variant")
  /\ LET j  == Head(microtasks)
         e  == EntryAt(inputData, j.frame, j.key)
         tr == TranslateOtherwise(e.text, LangOf(Cur))
         s1 == [Popped EXCEPT
                  !.activeRequests = @ \ {j.frame \o << j.key >>},
                  !.translationCache = cacheTranslation(@, e.text, LangOf(Cur), tr)]
     IN Becomes(Settle(Complete(s1, j.frame, j.key, tr), j.frame, j.key))
  /\ UNCHANGED Static

VariantNext ==
  \/ Next
  \/ ProviderResolvesOtherwise
  \/ TaskTranslatedOtherwise

VariantSpec == VariantInit /\ [][VariantNext]_vars

\* the texts the returned document holds for leaf x, when it was translated
Translated(x) ==
  ValuesAt(Assembled(Cur), x) \ { "[TRANSLATION_FAILED] " \o SourceText(x) }

\* C33: a value cached for a text and a language is never replaced by a
\* different value, and the leaves of a language run with the same source
\* text that were translated successfully hold the same translation, also
\* when maxWorkers >= 2 and the provider returns different translations of
\* the text.
C33_CachedValueNeverReplaced ==
  /\ [][\A l \in DOMAIN translationCache : \A t \in DOMAIN translationCache[l] :
          (l \in DOMAIN translationCache' /\ t \in DOMAIN translationCache'[l])
            => translationCache'[l][t] = translationCache[l][t]]_vars
  /\ [](RootReturned =>
          \A x, y \in StringLeaves :
            (SourceText(x) = SourceText(y) /\ Translated(x) # {} /\ Translated(y) # {})
              => Translated(x) = Translated(y))

\* the progress counter of language l
Progress(l) == IF l \in DOMAIN progress THEN progress[l] ELSE 0

\* C34: during a language run the progress counter of the language never
\* decreases and never exceeds the number of string leaves of the document,
\* and when the run ends with no failed leaf the counter equals that number,
\* for nested documents too.
C34_ProgressCountsLeaves ==
  /\ [][(pc = "running" /\ pc' = "running" /\ langIdx' = langIdx)
          => Progress(LangOf(Cur))' >= Progress(LangOf(Cur))]_vars
  /\ [](pc = "running" => Progress(LangOf(Cur)) <= Cardinality(StringLeaves))
  /\ []((pc = "running" /\ RootReturned
           /\ \A x \in StringLeaves : ~Failed(langIdx, x))
          => Progress(LangOf(Cur)) = Cardinality(StringLeaves))

\* the texts a provider call of run idx translated
TranslatedIn(idx) ==
  { SourceText(x) : x \in { y \in StringLeaves :
                              "ok" \in Range(Logged(providerLog, idx, LeafPath(y))) } }

\* C35: when the requested codes kr and ko normalise to the same code, the
\* language is run twice in one invocation and the cache is kept between
\* the two runs: the second run issues no provider call for a text the
\* first run translated, and both runs write the same output location.
C35_SameCanonicalCodeRunsTwice ==
  targetLanguages = << "kr", "ko" >> =>
    /\ \A c \in DOMAIN providerCalls :
         /\ c[2] = "ko"
         /\ c[1] = 2 => c[3] \notin TranslatedIn(1)
    /\ DOMAIN written \subseteq { "ko" }
    /\ DOMAIN results \subseteq { "ko" }
    /\ pc = "done" => langIdx = 2 /\ RootReturned

\* both runs are over; the second one called the provider for the text the
\* first one failed to translate, and for no other
C35_Witness ==
  /\ targetLanguages = << "kr", "ko" >> /\ pc = "done"
  /\ inputData = DocPair
  /\ TranslatedIn(1) = { "nihao" }
  /\ { c \in DOMAIN providerCalls : c[1] = 2 } = { << 2, "ko", "shijie" >> }
  /\ TranslatedIn(2) = { "shijie" }
  /\ results = ("ko" :> "ko.json")
  /\ \A x \in StringLeaves :
       ValuesAt(written["ko"], x) = { "ko:" \o SourceText(x) }

\* the provider calls whose translateText has not gone on after its await:
\* the calls the provider has not answered and the answered ones whose
\* continuation is queued
AwaitedCalls ==
  calls \cup { j.frame \o << j.key >> :
                 j \in { m \in Range(microtasks) : m.type = "provider" } }

\* C39: the set of active requests holds exactly the provider calls in
\* flight: a request is added before its provider call starts and removed
\* when translateText goes on after the call succeeded or failed, so the
\* set is empty whenever no call is in flight, and when
\* processTranslationsParallel returns or throws.
C39_ActiveRequestsAreCallsInFlight ==
  /\ activeRequests = AwaitedCalls
  /\ calls \subseteq activeRequests
  /\ pc # "running" => activeRequests = {}

\* one call is with the provider and another one was answered with a
\* failure that translateText has not yet seen
C39_Witness ==
  /\ pc = "running"
  /\ Cardinality(calls) = 1
  /\ Cardinality(activeRequests) = 2
  /\ \E m \in Range(microtasks) : m.type = "provider" /\ m.outcome = "error"

(***************************************************************************)
(* translateWithRetry.  One call, with a provider whose every invocation   *)
(* returns a translation, returns an empty result, fails with an Error or  *)
(* fails with a value that is not an Error.  Delays are fractions, so that *)
(* a retryMultiplier such as 1.5 is exact.                                 *)
(***************************************************************************)
RetryDelays == { 0, 100, 2000 }

RetryMultipliers == { << 1, 1 >>, << 3, 2 >>, << 2, 1 >> }

ErrorMessages == { "timeout", "rate limit" }

Outcome(kind, text) == [kind |-> kind, text |-> text]

\* a failure of the provider's call, or a result that is no translation: the
\* empty string, or a value that is not a string (the number 42)
FailureOutcomes ==
  { Outcome("error", m) : m \in ErrorMessages }
    \cup { Outcome("invalid", ""), Outcome("invalid", "42"),
           Outcome("nonerror", "") }

RetryInit ==
  /\ Invocation({ DocFlat }, { << "en" >> }, 1, 1)
  /\ NoTranslator /\ NoBatch
  /\ retryPc = "idle"
  /\ retryOptions \in [maxRetries : 1..MaxRetries, retryDelay : RetryDelays,
                       retryMultiplier : RetryMultipliers]
  /\ attempt = 0
  /\ currentDelay = [num |-> 0, den |-> 1]
  /\ invocations = << >>
  /\ waits = << >>
  /\ retryResult = ""

\* error instanceof Error ? error.message : <unknown error>; an empty or
\* non-string result is turned into Error(<invalid result>) by the try block.
\* The source's messages are Chinese text; "invalid result", "unknown error"
\* and "translation failed" stand for them here.
errorMessage(o) ==
  CASE o.kind = "error" -> o.text
    [] o.kind = "invalid" -> "invalid result"
    [] OTHER -> "unknown error"

\* a delay that is not multiplied
NextDelaySame(delay, multiplier) == delay

\* currentDelay *= options.retryMultiplier
NextDelay(delay, multiplier) ==
  [num |-> delay.num * multiplier[1], den |-> delay.den * multiplier[2]]

\* a test that lets the last attempt wait too
AttemptsRemainInclusive(n, max) == n <= max

\* attempt < options.maxRetries
AttemptsRemain(n, max) == n < max

\* the call, up to the await of the first provider invocation
translateWithRetry ==
  /\ retryPc = "idle"
  /\ currentDelay' = [num |-> retryOptions.retryDelay, den |-> 1]
  /\ attempt' = 1
  /\ retryPc' = IF 1 <= retryOptions.maxRetries THEN "calling" ELSE "thrown"
  /\ retryResult' = IF 1 <= retryOptions.maxRetries THEN "" ELSE "translation failed"
  /\ UNCHANGED << qvars, tvars, bvars, retryOptions, invocations, waits >>

\* the provider returns a translation: it is returned
AttemptSucceeds ==
  /\ retryPc = "calling"
  /\ LET translation == "translation#" \o ToString(attempt)
     IN /\ invocations' = Append(invocations, Outcome("ok", translation))
        /\ retryResult' = translation
  /\ retryPc' = "returned"
  /\ UNCHANGED << qvars, tvars, bvars, retryOptions, attempt, currentDelay, waits >>

\* the check of the result is missing: an invalid result is returned
AttemptFailsUnlessInvalid ==
  /\ retryPc = "calling"
  /\ \E o \in FailureOutcomes :
       /\ invocations' = Append(invocations, o)
       /\ IF o.kind = "invalid"
            THEN /\ retryPc' = "returned"
                 /\ waits' = waits
                 /\ retryResult' = o.text
            ELSE IF AttemptsRemain(attempt, retryOptions.maxRetries)
            THEN /\ retryPc' = "waiting"
                 /\ waits' = Append(waits, currentDelay)
                 /\ retryResult' = retryResult
            ELSE /\ retryPc' = "thrown"
                 /\ waits' = waits
                 /\ retryResult' = "translation failed (" \o errorMessage(o) \o ")"
  /\ UNCHANGED << qvars, tvars, bvars, retryOptions, attempt, currentDelay >>

\* the provider fails or returns an invalid result: the catch block waits
\* when attempts remain and throws otherwise
AttemptFails ==
  /\ retryPc = "calling"
  /\ \E o \in FailureOutcomes :
       /\ invocations' = Append(invocations, o)
       /\ IF AttemptsRemain(attempt, retryOptions.maxRetries)
            THEN /\ retryPc' = "waiting"
                 /\ waits' = Append(waits, currentDelay)
                 /\ retryResult' = retryResult
            ELSE /\ retryPc' = "thrown"
                 /\ waits' = waits
                 /\ retryResult' = "translation failed (" \o errorMessage(o) \o ")"
  /\ UNCHANGED << qvars, tvars, bvars, retryOptions, attempt, currentDelay >>

\* the wait is over: the delay is multiplied and the loop goes on, to the
\* next provider invocation or, past maxRetries, to the final throw
WaitElapses ==
  /\ retryPc = "waiting"
  /\ currentDelay' = NextDelay(currentDelay, retryOptions.retryMultiplier)
  /\ attempt' = attempt + 1
  /\ retryPc' = IF attempt + 1 <= retryOptions.maxRetries THEN "calling" ELSE "thrown"
  /\ retryResult' = IF attempt + 1 <= retryOptions.maxRetries THEN retryResult
                    ELSE "translation failed"
  /\ UNCHANGED << qvars, tvars, bvars, retryOptions, invocations, waits >>

RetryNext ==
  \/ translateWithRetry
  \/ AttemptSucceeds
  \/ AttemptFails
  \/ WaitElapses

RetrySpec == RetryInit /\ [][RetryNext]_vars

(***************************************************************************)
(* Properties of translateWithRetry.                                       *)
(***************************************************************************)
RECURSIVE Power(_, _)
Power(b, n) == IF n = 0 THEN 1 ELSE b * Power(b, n - 1)

\* wait i is retryDelay * retryMultiplier^(i-1)
BackoffLaw ==
  \A i \in DOMAIN waits :
    waits[i].num * Power(retryOptions.retryMultiplier[2], i - 1)
      = retryOptions.retryDelay * Power(retryOptions.retryMultiplier[1], i - 1)
          * waits[i].den

AllButLastFailed ==
  \A i \in 1..(Len(invocations) - 1) : invocations[i].kind # "ok"

\* C7: a provider that fails on attempts 1..N-1 and succeeds on attempt N
\* (N <= maxRetries) is invoked exactly N times, the call returns the result
\* of attempt N, and the wait before attempt i+1 is
\* retryDelay * retryMultiplier^(i-1).
C7_RetryBackoffLaw ==
  /\ BackoffLaw
  /\ (invocations # << >> /\ invocations[Len(invocations)].kind = "ok") =>
       /\ retryPc = "returned"
       /\ AllButLastFailed
       /\ Len(invocations) <= retryOptions.maxRetries
       /\ retryResult = invocations[Len(invocations)].text
       /\ Len(waits) = Len(invocations) - 1
  /\ retryPc = "returned" =>
       (invocations # << >> /\ invocations[Len(invocations)].kind = "ok")

C7_Witness ==
  /\ retryPc = "returned"
  /\ Len(invocations) = 3
  /\ retryOptions.retryMultiplier = << 3, 2 >>
  /\ retryOptions.retryDelay = 2000
  /\ waits = << [num |-> 2000, den |-> 1], [num |-> 6000, den |-> 2] >>

\* C8: with maxRetries = M and a provider that fails on every attempt, the
\* provider is invoked exactly M times, M-1 waits happen, none after the
\* last attempt, and the call fails with an error that carries the message
\* of the last failure.
C8_ExhaustedRetriesThrowLastFailure ==
  /\ retryPc = "thrown" =>
       /\ Len(invocations) = retryOptions.maxRetries
       /\ \A i \in DOMAIN invocations : invocations[i].kind # "ok"
       /\ Len(waits) = retryOptions.maxRetries - 1
       /\ LET last == invocations[Len(invocations)]
          IN /\ last.kind = "error" =>
                  retryResult = "translation failed (" \o last.text \o ")"
             /\ last.kind = "invalid" =>
                  retryResult = "translation failed (invalid result)"
  /\ (retryPc \in { "calling", "waiting" }
        /\ \A i \in DOMAIN invocations : invocations[i].kind # "ok") =>
       /\ Len(invocations) < retryOptions.maxRetries
       /\ Len(waits) <= Len(invocations)

C8_Witness ==
  /\ retryPc = "thrown"
  /\ retryOptions.maxRetries = 3
  /\ invocations[1] = Outcome("error", "timeout")
  /\ invocations[3] = Outcome("error", "rate limit")

\* C21: an empty or non-text provider result is handled like a provider
\* error: it counts as an attempt toward maxRetries, the same backoff wait
\* follows it when attempts remain, it ends the call with the failure when
\* none remain, and it is never the value the call returns.
C21_InvalidResultCountsAsFailure ==
  /\ Len(invocations) <= retryOptions.maxRetries
  /\ BackoffLaw
  /\ \A i \in DOMAIN invocations :
       invocations[i].kind = "invalid" =>
         /\ i < Len(invocations) => i \in DOMAIN waits
         /\ i = Len(invocations) =>
              /\ retryPc \in { "waiting", "calling", "thrown" }
              /\ retryPc \in { "waiting", "calling" } =>
                   i < retryOptions.maxRetries /\ Len(waits) = i
              /\ retryPc = "thrown" =>
                   /\ i = retryOptions.maxRetries
                   /\ Len(waits) = i - 1
                   /\ retryResult = "translation failed (invalid result)"
  /\ retryPc = "returned" =>
       /\ invocations[Len(invocations)].kind = "ok"
       /\ retryResult = invocations[Len(invocations)].text
       /\ retryResult \notin { "", "42" }

C21_Witness ==
  /\ retryPc = "returned"
  /\ Len(invocations) = 3
  /\ invocations[1] = Outcome("invalid", "")
  /\ invocations[2] = Outcome("invalid", "42")
  /\ Len(waits) = 2

(***************************************************************************)
(* Translator.translateObject.  One call walks the document depth first,   *)
(* one entry at a time: a nested object is translated by a nested call, a  *)
(* string with a Chinese character is sent to the provider and the walk    *)
(* waits for the answer, every other value is copied.  The texts "nihao",  *)
(* "shijie" and "Hello shijie" stand for texts with Chinese characters.    *)
(***************************************************************************)
\* {"title":"nihao","description":"Hello","nested":{"text":"shijie"}}
DocTitle ==
  (<<>> :> << Entry("title", "str", "nihao"), Entry("description", "str", "Hello"),
              Entry("nested", "obj", "") >>)
  @@ (<<"nested">> :> << Entry("text", "str", "shijie") >>)

\* {}
DocEmpty == (<<>> :> << >>)

\* {"number":42,"boolean":true,"null":null}
DocScalars ==
  (<<>> :> << Entry("number", "num", "42"), Entry("boolean", "bool", "true"),
              Entry("null", "null", "") >>)

\* {"x":"Hello","y":{"z":"OK 123","w":""}}
DocLatin ==
  (<<>> :> << Entry("x", "str", "Hello"), Entry("y", "obj", "") >>)
  @@ (<<"y">> :> << Entry("z", "str", "OK 123"), Entry("w", "str", "") >>)

\* {"g":"Hello shijie","h":{"i":"nihao"},"j":"Bye"}
DocGreeting ==
  (<<>> :> << Entry("g", "str", "Hello shijie"), Entry("h", "obj", ""),
              Entry("j", "str", "Bye") >>)
  @@ (<<"h">> :> << Entry("i", "str", "nihao") >>)

TranslatorDocuments ==
  { DocTitle, DocEmpty, DocScalars, DocLatin, DocGreeting, DocFlat, DocMixed,
    DocDeep }

TranslatorLanguages == { "en", "ko", "kr", "zh-CN" }

\* a test that holds of every string
isChineseTextOfAnyString(text) == TRUE

\* /[\u4e00-\u9fa5]/.test(text)
isChineseText(text) == text \in { "nihao", "shijie", "Hello shijie" }

\* what the provider's call can fail with: an Error or some other value
ProviderFailures ==
  { [isError |-> TRUE, message |-> "API Error"],
    [isError |-> FALSE, message |-> ""] }

handleError(error, key) ==
  [name |-> "TranslationError",
   code |-> "TRANSLATION_FAILED",
   message |-> IF error.isError THEN error.message
               ELSE "Unknown translation error occurred",
   key |-> key]

\* the state of the translateObject call, as a record
TCur == [pc |-> tPc, stack |-> tStack, result |-> tResult, calls |-> tCalls,
         error |-> tError, returned |-> tReturned]

TBecomes(t) ==
  /\ tPc' = t.pc
  /\ tStack' = t.stack
  /\ tResult' = t.result
  /\ tCalls' = t.calls
  /\ tError' = t.error
  /\ tReturned' = t.returned

\* result[key] = value in the call on top of the stack, and on to the next
\* entry of its loop
TAssign(t, e) ==
  LET n == Len(t.stack)
      f == t.stack[n].path
  IN [t EXCEPT !.result[f] = Append(@, e), !.stack[n].i = @ + 1]

\* the loop of translateObject (lines 47-62) from the entry the call on top
\* of the stack is at, up to the next provider call or to the return of the
\* outermost call
RECURSIVE translateObjectLoop(_)
translateObjectLoop(t) ==
  LET n   == Len(t.stack)
      top == t.stack[n]
  IN IF top.i > Len(obj[top.path])
       THEN IF n = 1
              THEN [t EXCEPT !.stack = << >>, !.pc = "returned",
                             !.returned = << t.result >>]
              ELSE translateObjectLoop(
                     TAssign([t EXCEPT !.stack = SubSeq(@, 1, n - 1)],
                             Entry(Last(top.path), "obj", "")))
       ELSE LET e == obj[top.path][top.i]
            IN CASE e.kind = "obj" ->
                      translateObjectLoop(
                        [t EXCEPT
                           !.stack = Append(@, [path |-> top.path \o << e.key >>,
                                                i |-> 1]),
                           !.result = Put(@, top.path \o << e.key >>, << >>)])
                 [] e.kind = "str" /\ isChineseText(e.text) ->
                      [t EXCEPT
                         !.pc = "awaiting",
                         !.calls = Append(@, [leaf |-> top.path \o << e.key >>,
                                              lang |-> targetLang,
                                              text |-> e.text,
                                              outcome |-> "pending"])]
                 [] OTHER -> translateObjectLoop(TAssign(t, e))

\* the entry the provider call in flight is for
TAwaited == obj[tStack[Len(tStack)].path][tStack[Len(tStack)].i]

TSettled(outcome) == [TCur EXCEPT !.calls[Len(tCalls)].outcome = outcome]

TranslatorInit ==
  /\ Invocation({ DocFlat }, { << "en" >> }, 1, 1)
  /\ NoRetry /\ NoBatch
  /\ config = TestConfig
  /\ translator = NewTranslator(TestConfig)
  /\ tPc = "idle"
  /\ obj \in TranslatorDocuments
  /\ targetLang \in TranslatorLanguages
  /\ tStack = << >>
  /\ tResult = << >>
  /\ tCalls = << >>
  /\ tError = NoError
  /\ tReturned = << >>

\* a translateObject that does not validate the language code
translateObjectUnvalidated ==
  /\ tPc = "idle"
  /\ TBecomes(translateObjectLoop(
       [TCur EXCEPT !.stack = << [path |-> << >>, i |-> 1] >>,
                    !.result = (<< >> :> << >>)]))
  /\ UNCHANGED << qvars, rvars, bvars, config, translator, obj, targetLang >>

\* translateObject is called with a supported language: lines 44-47
translateObject ==
  /\ tPc = "idle"
  /\ targetLang \in SUPPORTED_LANGUAGES
  /\ TBecomes(translateObjectLoop(
       [TCur EXCEPT !.stack = << [path |-> << >>, i |-> 1] >>,
                    !.result = (<< >> :> << >>)]))
  /\ UNCHANGED << qvars, rvars, bvars, config, translator, obj, targetLang >>

\* validateLanguageCode throws
validateLanguageCode ==
  /\ tPc = "idle"
  /\ targetLang \notin SUPPORTED_LANGUAGES
  /\ tPc' = "rejected"
  /\ tError' = [name |-> "Error", code |-> "",
                message |-> "Unsupported language code: " \o targetLang,
                key |-> ""]
  /\ UNCHANGED << qvars, rvars, bvars, config, translator, obj, targetLang, tStack, tResult,
                  tCalls, tReturned >>

\* a loop that does not await: the call stays in flight while the loop goes
\* on to the next entry
TranslatorProviderResolvesUnawaited ==
  /\ tPc = "awaiting"
  /\ TBecomes(translateObjectLoop(
       TAssign(TCur,
               Entry(TAwaited.key, "str", Translate(TAwaited.text, targetLang)))))
  /\ UNCHANGED << qvars, rvars, bvars, config, translator, obj, targetLang >>

\* the provider answers with a translation
TranslatorProviderResolves ==
  /\ tPc = "awaiting"
  /\ TBecomes(translateObjectLoop(
       TAssign(TSettled("ok"),
               Entry(TAwaited.key, "str", Translate(TAwaited.text, targetLang)))))
  /\ UNCHANGED << qvars, rvars, bvars, config, translator, obj, targetLang >>

\* the provider answers with an empty content: content?.trim() || text
TranslatorProviderReturnsEmpty ==
  /\ tPc = "awaiting"
  /\ TBecomes(translateObjectLoop(
       TAssign(TSettled("empty"), Entry(TAwaited.key, "str", TAwaited.text))))
  /\ UNCHANGED << qvars, rvars, bvars, config, translator, obj, targetLang >>

\* the failure is swallowed: the text stays and the loop goes on
TranslatorProviderRejectsAndGoesOn ==
  /\ tPc = "awaiting"
  /\ TBecomes(translateObjectLoop(
       TAssign(TSettled("error"), Entry(TAwaited.key, "str", TAwaited.text))))
  /\ UNCHANGED << qvars, rvars, bvars, config, translator, obj, targetLang >>

\* the provider's call fails: the catch of translateWithOpenAI and the catch
\* of lines 56-58 wrap the error, which leaves every translateObject call
TranslatorProviderRejects ==
  /\ tPc = "awaiting"
  /\ \E failure \in ProviderFailures :
       LET inner == handleError(failure, "")
           outer == handleError([isError |-> TRUE, message |-> inner.message],
                                TAwaited.key)
       IN TBecomes([TSettled("error") EXCEPT
                      !.pc = "rejected", !.stack = << >>, !.error = outer])
  /\ UNCHANGED << qvars, rvars, bvars, config, translator, obj, targetLang >>

TranslatorNext ==
  \/ translateObject
  \/ validateLanguageCode
  \/ TranslatorProviderResolves
  \/ TranslatorProviderReturnsEmpty
  \/ TranslatorProviderRejects

TranslatorSpec == TranslatorInit /\ [][TranslatorNext]_vars

(***************************************************************************)
(* Properties of Translator.translateObject.                               *)
(***************************************************************************)
\* the entries of obj, as << path of the object, index >>
TEntries == UNION { {p} \X DOMAIN obj[p] : p \in DOMAIN obj }

\* the entries translateObject sends to the provider
ChineseLeaves ==
  { x \in TEntries : obj[x[1]][x[2]].kind = "str"
                     /\ obj[x[1]][x[2]].text \in { "nihao", "shijie", "Hello shijie" } }

\* the paths of the leaves with Chinese text under an object, depth first in
\* key order
RECURSIVE TraversalOrder(_, _)
TraversalOrder(path, i) ==
  IF i > Len(obj[path]) THEN << >>
  ELSE LET e == obj[path][i]
       IN (CASE e.kind = "obj" -> TraversalOrder(path \o << e.key >>, 1)
             [] << path, i >> \in ChineseLeaves -> << path \o << e.key >> >>
             [] OTHER -> << >>)
          \o TraversalOrder(path, i + 1)

Leaves(cs) == [i \in DOMAIN cs |-> cs[i].leaf]

\* C14: with a supported target language, every number, boolean, null and
\* string without Chinese characters is returned exactly as it is in the
\* input and is never sent to the provider; a document without a Chinese
\* string leaf, the empty object included, is returned equal to the input
\* without any provider call.
C14_NonChineseValuesPassThrough ==
  /\ \A c \in Range(tCalls) :
       \E x \in ChineseLeaves :
         c.leaf = x[1] \o << obj[x[1]][x[2]].key >> /\ c.text = obj[x[1]][x[2]].text
  /\ tPc = "returned" =>
       /\ DOMAIN tReturned[1] = DOMAIN obj
       /\ \A x \in TEntries \ ChineseLeaves :
            /\ x[2] \in DOMAIN tReturned[1][x[1]]
            /\ tReturned[1][x[1]][x[2]] = obj[x[1]][x[2]]
  /\ (targetLang \in SUPPORTED_LANGUAGES /\ ChineseLeaves = {}) =>
       /\ tCalls = << >>
       /\ tPc \in { "idle", "returned" }
       /\ tPc = "returned" => tReturned = << obj >>

C14_Witness ==
  /\ tPc = "returned"
  /\ obj = DocTitle
  /\ tReturned[1][<< >>][2] = Entry("description", "str", "Hello")
  /\ tReturned[1][<< >>][1] = Entry("title", "str", "en:nihao")

C14_WitnessEmptyObject == tPc = "returned" /\ obj = DocEmpty /\ tReturned = << DocEmpty >>

\* C15: when the provider call for a leaf fails, translateObject rejects
\* with an error whose code is 'TRANSLATION_FAILED', returns no document,
\* and sends no leaf that follows the failing one in traversal order.
C15_ProviderFailureRejectsWholeCall ==
  (\E i \in DOMAIN tCalls : tCalls[i].outcome = "error") =>
    /\ tPc = "rejected"
    /\ tError.code = "TRANSLATION_FAILED"
    /\ tError.name = "TranslationError"
    /\ tReturned = << >>
    /\ tCalls[Len(tCalls)].outcome = "error"
    /\ \A i \in 1..(Len(tCalls) - 1) : tCalls[i].outcome # "error"
    /\ Leaves(tCalls) = SubSeq(TraversalOrder(<< >>, 1), 1, Len(tCalls))

C15_Witness ==
  /\ tPc = "rejected"
  /\ obj = DocFlat
  /\ Len(tCalls) = 2
  /\ tCalls[2].outcome = "error"
  /\ tError.key = "b"

\* C37: translateObject issues its provider calls one at a time, in depth
\* first key order of the input document: at most one call is in flight,
\* and the call for a leaf starts only after the calls for all the leaves
\* before it in that order have succeeded.
C37_ProviderCallsOneAtATime ==
  /\ Cardinality({ i \in DOMAIN tCalls : tCalls[i].outcome = "pending" }) <= 1
  /\ \A i \in 1..(Len(tCalls) - 1) : tCalls[i].outcome \in { "ok", "empty" }
  /\ Len(tCalls) <= Len(TraversalOrder(<< >>, 1))
  /\ Leaves(tCalls) = SubSeq(TraversalOrder(<< >>, 1), 1, Len(tCalls))
  /\ tPc = "returned" => Leaves(tCalls) = TraversalOrder(<< >>, 1)

\* the call for the nested leaf i of {"g":..,"h":{"i":..},"j":..} is in
\* flight after the call for g succeeded
C37_Witness ==
  /\ tPc = "awaiting"
  /\ obj = DocGreeting
  /\ Len(tCalls) = 2
  /\ tCalls[1].leaf = << "g" >> /\ tCalls[1].outcome = "ok"
  /\ tCalls[2].leaf = << "h", "i" >> /\ tCalls[2].outcome = "pending"

\* C38: translateObject with a target language that is not in
\* SUPPORTED_LANGUAGES rejects with "Unsupported language code" before any
\* provider call is made, for every input document.
C38_UnsupportedLanguageRejectedBeforeAnyCall ==
  targetLang \notin SUPPORTED_LANGUAGES =>
    /\ tCalls = << >>
    /\ tPc \in { "idle", "rejected" }
    /\ tReturned = << >>
    /\ tPc = "rejected" =>
         /\ tError.name = "Error"
         /\ tError.message = "Unsupported language code: " \o targetLang

\* the call for a document with Chinese leaves and the code kr is rejected
C38_Witness ==
  /\ tPc = "rejected"
  /\ targetLang = "kr"
  /\ obj = DocTitle
  /\ tCalls = << >>
  /\ tError.message = "Unsupported language code: kr"

(***************************************************************************)
(* The batch version of processTranslationsParallel.  A task is made for   *)
(* every language; the executor of a task's promise runs when the promise  *)
(* is made, up to its call of translator.translateObject.  The loop then   *)
(* awaits the promises maxWorkers at a time.  A task never rejects: its    *)
(* promise resolves with [lang, path] or with [lang, 'ERROR: ...'].        *)
(***************************************************************************)
BatchTargetLists ==
  { << "en" >>, << "en", "ja" >>, << "kr", "jp" >>, << "kr", "ko" >>,
    << "en", "ja", "ko" >>, << "cn", "en" >>, << "xx" >> }

BatchInit ==
  /\ Invocation({ DocFlat }, { << "en" >> }, 1, 1)
  /\ NoRetry /\ NoTranslator
  /\ bPc = "idle"
  /\ bLanguages \in BatchTargetLists
  /\ bOptions \in [maxWorkers : 1..MaxWorkers, maxRetries : 1..MaxBatchRetries,
                    retryDelay : { 2000 }, retryMultiplier : { << 3, 2 >> }]
  /\ bTasks = << >>
  /\ bBatch = 0
  /\ bResults = << >>
  /\ bWritten = {}
  /\ bStarted = << >>

\* the tasks of the batch the loop is at: translationTasks.slice(i, i + maxWorkers)
Batch(i) == { k \in DOMAIN bTasks : i < k /\ k <= i + bOptions.maxWorkers }

\* error markers are put into the results as well
batchResultsWithErrors(res, batch) ==
  LET langs == { bTasks[k].lang : k \in batch }
  IN [l \in DOMAIN res \cup langs |->
        IF l \in langs
          THEN LET last == CHOOSE k \in batch :
                             /\ bTasks[k].lang = l
                             /\ \A j \in batch : bTasks[j].lang = l => j <= k
               IN bTasks[last].value
          ELSE res[l]]

\* batchResults.forEach: results[lang] = path unless path starts with 'ERROR:'
batchResults(res, batch) ==
  LET ok    == { k \in batch : bTasks[k].value = bTasks[k].lang \o ".json" }
      langs == { bTasks[k].lang : k \in ok }
  IN [l \in DOMAIN res \cup langs |->
        IF l \in langs THEN l \o ".json" ELSE res[l]]

\* lines 183-232: the document is read and the tasks are made; every
\* executor runs to its first translateObject call; then the loop awaits
\* the first batch
processTranslationsParallelBatch ==
  /\ bPc = "idle"
  /\ bPc' = "awaiting"
  /\ bTasks' = [k \in DOMAIN bLanguages |->
                  [lang |-> normalizeLanguageCode(bLanguages[k]),
                   pc |-> "calling", attempt |-> 1, value |-> "",
                   currentDelay |-> [num |-> bOptions.retryDelay, den |-> 1],
                   errors |-> << >>, waits |-> << >>]]
  /\ bStarted' = [k \in DOMAIN bLanguages |-> k]
  /\ bBatch' = 0
  /\ UNCHANGED << qvars, rvars, tvars, bLanguages, bOptions, bResults, bWritten >>

\* translateObject returns a document and saveTranslation writes it; the
\* translator is a Translator, whose translateObject first validates the code
BatchTranslated ==
  \E k \in DOMAIN bTasks :
    /\ bTasks[k].pc = "calling"
    /\ bTasks[k].lang \in SUPPORTED_LANGUAGES
    /\ bTasks' = [bTasks EXCEPT ![k].pc = "resolved",
                                ![k].value = bTasks[k].lang \o ".json"]
    /\ bWritten' = bWritten \cup { bTasks[k].lang }
    /\ UNCHANGED << qvars, rvars, tvars, bPc, bLanguages, bOptions, bBatch,
                    bResults, bStarted >>

\* translateObject returns a document and saveTranslation throws
BatchSaveFails ==
  \E k \in DOMAIN bTasks :
    /\ bTasks[k].pc = "calling"
    /\ bTasks[k].lang \in SUPPORTED_LANGUAGES
    /\ bTasks' = [bTasks EXCEPT ![k].pc = "resolved", ![k].value = SaveError]
    /\ UNCHANGED << qvars, rvars, tvars, bPc, bLanguages, bOptions, bBatch,
                    bResults, bWritten, bStarted >>

\* the messages translateObject can fail with for a language: the error of
\* validateLanguageCode, or that of a TranslationError
BatchFailures(l) ==
  IF l \in SUPPORTED_LANGUAGES
    THEN { "API Error" }
    ELSE { "Unsupported language code: " \o l }

\* the catch of translateWithRetry: wait when attempts remain, else throw
BatchCatch(task, message) ==
  IF AttemptsRemain(task.attempt, bOptions.maxRetries)
    THEN [task EXCEPT !.pc = "waiting",
                      !.errors = Append(@, message),
                      !.waits = Append(@, task.currentDelay),
                      !.currentDelay = NextDelay(@, bOptions.retryMultiplier)]
    ELSE [task EXCEPT !.pc = "resolved",
                      !.errors = Append(@, message),
                      !.value = "ERROR: translation failed (" \o message \o ")"]

\* the error of validateLanguageCode is not retried
BatchTranslateFailsAtOnceIfUnsupported ==
  \E k \in DOMAIN bTasks :
    /\ bTasks[k].pc = "calling"
    /\ \E message \in BatchFailures(bTasks[k].lang) :
         bTasks' = [bTasks EXCEPT ![k] =
                      IF bTasks[k].lang \in SUPPORTED_LANGUAGES
                        THEN BatchCatch(@, message)
                        ELSE [@ EXCEPT !.pc = "resolved",
                                       !.errors = Append(@, message),
                                       !.value = "ERROR: " \o message]]
    /\ UNCHANGED << qvars, rvars, tvars, bPc, bLanguages, bOptions, bBatch,
                    bResults, bWritten, bStarted >>

\* translateObject rejects or returns no object: the catch of
\* translateWithRetry waits, or throws after the last attempt
BatchTranslateFails ==
  \E k \in DOMAIN bTasks :
    /\ bTasks[k].pc = "calling"
    /\ \E message \in BatchFailures(bTasks[k].lang) :
         bTasks' = [bTasks EXCEPT ![k] = BatchCatch(@, message)]
    /\ UNCHANGED << qvars, rvars, tvars, bPc, bLanguages, bOptions, bBatch,
                    bResults, bWritten, bStarted >>

\* the wait before a retry is over: the next attempt calls translateObject
BatchRetryStarts ==
  \E k \in DOMAIN bTasks :
    /\ bTasks[k].pc = "waiting"
    /\ bTasks' = [bTasks EXCEPT ![k].pc = "calling", ![k].attempt = @ + 1]
    /\ bStarted' = Append(bStarted, k)
    /\ UNCHANGED << qvars, rvars, tvars, bPc, bLanguages, bOptions, bBatch,
                    bResults, bWritten >>

\* Promise.all of the batch resolves: lines 239-255
BatchSettled ==
  /\ bPc = "awaiting"
  /\ \A k \in Batch(bBatch) : bTasks[k].pc = "resolved"
  /\ bResults' = batchResults(bResults, Batch(bBatch))
  /\ bPc' = IF bBatch + bOptions.maxWorkers < Len(bTasks) THEN "delay" ELSE "done"
  /\ UNCHANGED << qvars, rvars, tvars, bLanguages, bOptions, bTasks, bBatch,
                  bWritten, bStarted >>

\* batchDelay is over: the loop awaits the next batch
BatchDelayElapses ==
  /\ bPc = "delay"
  /\ bPc' = "awaiting"
  /\ bBatch' = bBatch + bOptions.maxWorkers
  /\ UNCHANGED << qvars, rvars, tvars, bLanguages, bOptions, bTasks, bResults,
                  bWritten, bStarted >>

BatchNext ==
  \/ processTranslationsParallelBatch
  \/ BatchTranslated
  \/ BatchSaveFails
  \/ BatchTranslateFails
  \/ BatchRetryStarts
  \/ BatchSettled
  \/ BatchDelayElapses

BatchSpec == BatchInit /\ [][BatchNext]_vars

(***************************************************************************)
(* Properties of the batch version.                                        *)
(***************************************************************************)
\* the translateObject calls in flight
BatchInFlight == { k \in DOMAIN bTasks : bTasks[k].pc = "calling" }

\* the number of the batch of a task
BatchOf(k) == (k - 1) \div bOptions.maxWorkers

\* C19: with maxWorkers = W at most W translateObject calls, retries
\* included, are in flight at any time, and no language of a batch starts
\* before every language of the batches before it has settled.
C19_BatchesBoundLanguagesInFlight ==
  /\ Cardinality(BatchInFlight) <= bOptions.maxWorkers
  /\ \A j \in Range(bStarted) : \A k \in DOMAIN bTasks :
       BatchOf(k) < BatchOf(j) => bTasks[k].pc = "resolved"

\* the tasks that translated and saved their language
BatchSucceeded == { k \in DOMAIN bTasks : bTasks[k].value = bTasks[k].lang \o ".json" }

\* C20: a language that fails after all its retries stops neither the
\* invocation nor the other languages: every task settles on its own, the
\* call returns, and the returned map holds the output path of exactly the
\* languages that were translated and saved.
C20_BatchFailureContained ==
  /\ bPc \in { "idle", "awaiting", "delay", "done" }
  /\ bPc # "idle" =>
       /\ DOMAIN bTasks = DOMAIN bLanguages
       /\ \A k \in DOMAIN bTasks : bTasks[k].pc \in { "calling", "waiting", "resolved" }
  /\ bPc = "done" =>
       /\ \A k \in DOMAIN bTasks : bTasks[k].pc = "resolved"
       /\ DOMAIN bResults = { bTasks[k].lang : k \in BatchSucceeded }
       /\ \A l \in DOMAIN bResults : bResults[l] = l \o ".json" /\ l \in bWritten

C20_Witness ==
  /\ bPc = "done"
  /\ bLanguages = << "en", "ja", "ko" >>
  /\ bOptions.maxRetries = 2
  /\ bTasks[1].value = "ERROR: translation failed (API Error)"
  /\ bTasks[1].attempt = 2
  /\ DOMAIN bResults = { "ja", "ko" }

\* wait i of a task is retryDelay * retryMultiplier^(i-1)
BatchBackoffLaw(task) ==
  \A i \in DOMAIN task.waits :
    task.waits[i].num * Power(bOptions.retryMultiplier[2], i - 1)
      = bOptions.retryDelay * Power(bOptions.retryMultiplier[1], i - 1)
          * task.waits[i].den

\* C26: every failure of translateObject is retried while attempts remain,
\* the error of an unsupported language included: such a language is
\* attempted maxRetries times, with a backoff wait between the attempts,
\* before it is failed.
C26_UnsupportedLanguageIsRetried ==
  \A k \in DOMAIN bTasks :
    LET task == bTasks[k]
    IN /\ BatchBackoffLaw(task)
       /\ task.pc = "calling" =>
            task.attempt = Len(task.errors) + 1 /\ Len(task.waits) = Len(task.errors)
       /\ task.pc = "waiting" =>
            /\ task.attempt = Len(task.errors) /\ Len(task.waits) = Len(task.errors)
            /\ task.attempt < bOptions.maxRetries
       /\ (task.pc = "resolved" /\ task.value \notin { task.lang \o ".json", SaveError }) =>
            /\ Len(task.errors) = bOptions.maxRetries
            /\ Len(task.waits) = bOptions.maxRetries - 1
            /\ task.value = "ERROR: translation failed ("
                               \o task.errors[Len(task.errors)] \o ")"
       /\ task.lang \notin SUPPORTED_LANGUAGES =>
            /\ \A i \in DOMAIN task.errors :
                 task.errors[i] = "Unsupported language code: " \o task.lang
            /\ task.pc = "resolved" => task.errors # << >>
            /\ task.lang \notin bWritten

C26_Witness ==
  /\ bLanguages = << "cn", "en" >>
  /\ bOptions.maxRetries = 2
  /\ bTasks # << >>
  /\ bTasks[1].pc = "resolved"
  /\ bTasks[1].errors = << "Unsupported language code: zh-CN",
                           "Unsupported language code: zh-CN" >>
  /\ bTasks[1].waits = << [num |-> 2000, den |-> 1] >>
  /\ bTasks[2].value = "en.json"

(***************************************************************************)
(* The constructor of Translator, called with any configuration.           *)
(***************************************************************************)
ConstructorInit ==
  /\ Invocation({ DocFlat }, { << "en" >> }, 1, 1)
  /\ NoRetry /\ NoBatch
  /\ config \in Configs
  /\ translator = NotConstructed
  /\ tPc = "idle"
  /\ obj = (<< >> :> << >>)
  /\ targetLang = "en"
  /\ tStack = << >>
  /\ tResult = << >>
  /\ tCalls = << >>
  /\ tError = NoError
  /\ tReturned = << >>

Translator ==
  /\ translator.pc = "none"
  /\ translator' = NewTranslator(config)
  /\ UNCHANGED << qvars, rvars, bvars, config, tPc, obj, targetLang, tStack,
                  tResult, tCalls, tError, tReturned >>

ConstructorSpec == ConstructorInit /\ [][Translator]_vars

\* the configuration lacks the credentials of the provider it selects, or
\* selects none and holds no credential at all
LacksCredentials(c) ==
  \/ c.provider = "openai" /\ c.openaiApiKey = ""
  \/ c.provider = "claude" /\ c.anthropicApiKey = ""
  \/ c.provider = "custom" /\ (c.customProvider.apiUrl = "" \/ c.customProvider.apiKey = "")
  \/ /\ c.provider = ""
     /\ c.openaiApiKey = "" /\ c.anthropicApiKey = "" /\ ~c.customProvider.present

\* C24: the constructor throws when the configuration lacks the credentials
\* of the selected provider, and when it selects no provider and gives no
\* credential; the empty configuration is rejected.
C24_ConstructorRejectsMissingCredentials ==
  translator.pc # "none" =>
    /\ LacksCredentials(config) =>
         /\ translator.pc = "thrown"
         /\ translator.error # ""
         /\ ~translator.openaiClient /\ ~translator.anthropicClient
         /\ ~translator.customClient
    /\ config = EmptyConfig => translator.pc = "thrown"

C24_Witness ==
  /\ translator.pc = "thrown"
  /\ config = EmptyConfig
  /\ translator.error = "At least one API provider configuration must be provided"


(***************************************************************************)
(* A Translator of any configuration, constructed and then asked to        *)
(* translate a document.                                                   *)
(***************************************************************************)
ClientDocuments == { DocTitle, DocGreeting, DocLatin }

ClientInit ==
  /\ Invocation({ DocFlat }, { << "en" >> }, 1, 1)
  /\ NoRetry /\ NoBatch
  /\ config \in Configs
  /\ translator = NotConstructed
  /\ tPc = "idle"
  /\ obj \in ClientDocuments
  /\ targetLang = "en"
  /\ tStack = << >>
  /\ tResult = << >>
  /\ tCalls = << >>
  /\ tError = NoError
  /\ tReturned = << >>

\* the client translateText, translateWithOpenAI and translateWithClaude
\* look for: lines 68-78, 87 and 116
HasClient(t) ==
  CASE t.provider = "openai" -> t.openaiClient
    [] t.provider = "claude" -> t.anthropicClient
    [] t.provider = "custom" -> t.customClient
    [] OTHER -> FALSE

ClientError(t) ==
  CASE t.provider = "openai" -> "OpenAI client not initialized"
    [] t.provider = "claude" -> "Claude client not initialized"
    [] t.provider = "custom" -> "Custom client not initialized"
    [] OTHER -> "Unsupported provider: " \o t.provider

\* translateObject of a constructed Translator
TranslatorTranslates ==
  /\ translator.pc = "constructed"
  /\ translateObject

\* the client of the Translator is called and answers or fails
ClientAnswers ==
  /\ HasClient(translator)
  /\ \/ TranslatorProviderResolves
     \/ TranslatorProviderReturnsEmpty
     \/ TranslatorProviderRejects

\* translateText finds no client: the error is thrown before any request
\* and wrapped by the catch of lines 56-58
ClientNotInitialized ==
  /\ tPc = "awaiting"
  /\ ~HasClient(translator)
  /\ TBecomes([TSettled("error") EXCEPT
                 !.pc = "rejected", !.stack = << >>,
                 !.error = handleError([isError |-> TRUE,
                                        message |-> ClientError(translator)],
                                       TAwaited.key)])
  /\ UNCHANGED << qvars, rvars, bvars, config, translator, obj, targetLang >>

ClientNext ==
  \/ Translator
  \/ TranslatorTranslates
  \/ ClientAnswers
  \/ ClientNotInitialized

ClientSpec == ClientInit /\ [][ClientNext]_vars

\* C36: every Translator whose construction succeeded has an initialised
\* client for its effective provider, the configured one or openai when
\* none is configured, so no translation of a Chinese string leaf fails
\* with a "client not initialized" error.
C36_ConstructedTranslatorHasClient ==
  /\ translator.pc = "constructed" => HasClient(translator)
  /\ tPc = "rejected" =>
       tError.message \notin { "OpenAI client not initialized",
                               "Claude client not initialized",
                               "Custom client not initialized" }

====
